---- MODULE Spec2Model ----
(***************************************************************************)
(* State-machine model of dummybox's endpoints:                            *)
(*   cmd/cpu/cpu.go       /cpu    : job registry, worker pool, timeout     *)
(*   cmd/memory/memory.go /memory : block map, deallocation timer          *)
(*   cmd/log (log.go)     /log    : one-shot and interval logging          *)
(*   cmd/kill             /kill   : delayed os.Exit                        *)
(*   cmd/delay, respond   /delay, /respond : sleep, then answer            *)
(* Every HTTP request is one goroutine running its handler in a few steps  *)
(* (one step per critical section under cpuMutex / memoryMutex); workers   *)
(* and timer goroutines are separate processes.  The wall clock `now`      *)
(* counts seconds, the resolution of the "20060102-150405" key stamps.     *)
(***************************************************************************)
EXTENDS Integers, Sequences, FiniteSets, TLC

\* ---------------------------------------------------------------- bounds
MaxReq == 2          \* HTTP requests issued over a run
NumCPU == 2          \* runtime.NumCPU() of the host
MaxTime == 2         \* seconds during which requests are accepted
MaxDuration == 1     \* largest duration (seconds) a request asks for
MaxEntries == 3      \* cap on the log entries one job is followed for
MaxWaited == 2       \* cap on the seconds a sleeper is followed for

Requests == 1..MaxReq
WorkerIDs == 0..(NumCPU - 1)
Durations == 0..MaxDuration
IntensityInputs == {"extreme", "LIGHT"}
SizeInputs == {10, 25}
IntervalInputs == {0, 1}

\* ------------------------------------------------------------- variables
VARIABLES
    now,          \* wall clock, in seconds
    alive,        \* the process is running (FALSE after a goroutine panic)
    pc,           \* pc[r]: position of request r's handler
    endpoint,     \* endpoint[r]: "none", "cpu", "memory", "log", "kill", ...
    params,       \* params[r]: the validated parameters of request r
    resp,         \* resp[r]: status code and key written to the response
    reqCtxDone,   \* reqCtxDone[r]: r's request context has been cancelled
    jobCounter,   \* cpu.jobCounter
    cpuJobs,      \* cpu.cpuJobs: job key -> cancel function (of job r)
    jobKey,       \* jobKey[r]: CPUHandler's local jobKey
    cancelCalls,  \* cancelCalls[r]: invocations of job r's jobCancel
    deletes,      \* deletes[r]: delete(cpuJobs, key) executed for job r
    stoppedBy,    \* stoppedBy[r]: who invoked job r's cancel first
    workerPc,     \* workerPc[r][w]: position of cpuWorker w of job r
    cpuTimer,     \* cpuTimer[r]: timeout goroutine (-1 none, -2 finished)
    memoryBlocks, \* memory.memoryBlocks: allocation key -> blocks
    allocKey,     \* allocKey[r]: MemoryHandler's local allocKey
    memTimer,     \* memTimer[r]: deallocation goroutine (-1 none, -2 done)
    logPc,        \* logPc[r]: position of the background logging goroutine
    logEntries,   \* logEntries[r]: entries generated for request r
    ticker,       \* ticker[r]: [left, c] of time.Ticker (left = -1: none)
    durationTimer, \* durationTimer[r]: [left, c] of time.Timer (-1: nil)
    TestMode,     \* kill.TestMode
    killPc,       \* killPc[r]: position of /kill's termination goroutine
    killTimer,    \* killTimer[r]: seconds left of its time.Sleep (-1 none)
    killWaited,   \* killWaited[r]: seconds gone by since it started
    exitCode,     \* the code passed to os.Exit (-1: none)
    delayTimer,   \* delayTimer[r]: seconds left of the handler's time.Sleep
    delayWaited,  \* delayWaited[r]: seconds gone by since the handler began
    authToken,    \* cfg.AuthToken ("": authentication is off)
    cpuMutex,     \* cpu.cpuMutex: the goroutine holding it, or Unlocked
    memoryMutex,  \* memory.memoryMutex: the goroutine holding it
    building,     \* building[r]: allocateMemory's local `blocks` of request r
    cpuStats,     \* the map the last call of GetCPUStats returned
    memStats      \* the map the last call of GetMemoryStats returned

reqVars == <<pc, endpoint, params, resp, reqCtxDone>>
cpuVars == <<jobCounter, cpuJobs, jobKey, cancelCalls, deletes, stoppedBy,
             workerPc, cpuTimer>>
memVars == <<memoryBlocks, allocKey, memTimer>>
logVars == <<logPc, logEntries, ticker, durationTimer>>
killVars == <<TestMode, killPc, killTimer, killWaited, exitCode>>
delayVars == <<delayTimer, delayWaited>>
envVars == <<authToken, cpuMutex, memoryMutex, building, cpuStats, memStats>>
vars == <<now, alive, reqVars, cpuVars, memVars, logVars, killVars, delayVars,
          envVars>>

\* ------------------------------------------------------- pure functions
Medium == "medium"

\* cpu.intensityLevels: durations in milliseconds
intensityLevels ==
    [i \in {"light", "medium", "heavy", "extreme"} |->
        CASE i = "light"   -> [WorkSize |-> 5000,  WorkDuration |-> 100, SleepDuration |-> 400]
          [] i = "medium"  -> [WorkSize |-> 15000, WorkDuration |-> 250, SleepDuration |-> 250]
          [] i = "heavy"   -> [WorkSize |-> 30000, WorkDuration |-> 400, SleepDuration |-> 100]
          [] i = "extreme" -> [WorkSize |-> 50000, WorkDuration |-> 500, SleepDuration |-> 0]]

ValidateIntensity(intensityStr) == intensityStr \in DOMAIN intensityLevels

GetIntensityConfig(intensity) == intensityLevels[intensity]

\* CPUHandler's intensity validation: an unknown string becomes Medium
EffectiveIntensity_FoldCase(intensityStr) ==
    IF intensityStr \in DOMAIN intensityLevels THEN intensityStr
    ELSE IF intensityStr = "LIGHT" THEN "light" ELSE Medium
EffectiveIntensity(intensityStr) ==
    IF ValidateIntensity(intensityStr) THEN intensityStr ELSE Medium

\* CPUHandler / MemoryHandler duration validation
ValidateDuration(d) == IF d < 0 \/ d > 3600 THEN 60 ELSE d

\* MemoryHandler size validation
ValidateSize(s) == IF s < 1 \/ s > 8192 THEN 100 ELSE s

\* LogHandler interval and duration validation
ValidateInterval(i) == IF i < 0 \/ i > 3600 THEN 0 ELSE i
ValidateLogDuration(d) == IF d < 0 \/ d > 86400 THEN 0 ELSE d

\* time.Now().Format("20060102-150405"), for the seconds 0..59 of one minute
Pad2(n) == IF n < 10 THEN "0" \o ToString(n) ELSE ToString(n)
Format(t) == "20060102-1504" \o Pad2(t)

\* fmt.Sprintf("cpu-job-%d-%s", jobCounter, stamp)
JobKeyFmt_NoCounter(counter, t) == "cpu-job-" \o Format(t)
JobKeyFmt(counter, t) == "cpu-job-" \o ToString(counter) \o "-" \o Format(t)

\* fmt.Sprintf("%s-%d", stamp, params.Size)
AllocKeyFmt(t, size) == Format(t) \o "-" \o ToString(size)

\* `if params.Duration > 0 { go func() { time.Sleep(...); stop... }() }`
TimeoutScheduled_Never(duration) == FALSE
TimeoutScheduled_Always(duration) == TRUE
TimeoutScheduled(duration) == duration > 0

\* MemoryHandler: `if params.Duration > 0 { go func() { ...deallocate } }`
DeallocScheduled(duration) == duration > 0

\* jobCtx is derived from context.Background(), not from the request
JobCtxParent == "background"

\* ctx.Done() of job r's context is closed
JobCtxDone(r) ==
    \/ cancelCalls[r] > 0
    \/ JobCtxParent = "request" /\ reqCtxDone[r]

\* allocateMemory: the blocks built for sizeMB; a block is its length in
\* bytes and the request whose make([]byte, n) created it
ChunkSize == 10 * 1024 * 1024
Blocks_NoRemainder(sizeMB, r) ==
    [i \in 1..((sizeMB * 1024 * 1024) \div ChunkSize) |->
        [len |-> ChunkSize, by |-> r]]
Blocks(sizeMB, r) ==
    LET totalBytes == sizeMB * 1024 * 1024
        numChunks == totalBytes \div ChunkSize
        remainder == totalBytes % ChunkSize
        full == [i \in 1..numChunks |-> [len |-> ChunkSize, by |-> r]]
    IN  IF remainder > 0
        THEN Append(full, [len |-> remainder, by |-> r])
        ELSE full

\* `if params.Interval == 0 && params.Duration == 0` : log once, inline
LogsInline_IntervalOnly(interval, duration) == interval = 0
LogsInline(interval, duration) == interval = 0 /\ duration = 0

\* m with key k removed / set
MapDelete(m, k) == [x \in DOMAIN m \ {k} |-> m[x]]
MapSet(m, k, v) == [x \in DOMAIN m \cup {k} |-> IF x = k THEN v ELSE m[x]]

NoParams == [intensity |-> "", duration |-> 0, size |-> 0, interval |-> 0,
             delay |-> 0, code |-> 0, level |-> "", logSize |-> "",
             message |-> ""]
NoChan == [left |-> -1, c |-> 0]

\* a sync.RWMutex nobody holds; GetCPUStats not called yet
Unlocked == <<>>
NoStats == [active_jobs |-> {}, total_jobs |-> -1]
NoMemStats == [active_allocations |-> <<>>, total_allocated_mb |-> -1]

\* ------------------------------------------------------------------ Init
Init ==
    /\ now = 0
    /\ alive = TRUE
    /\ pc = [r \in Requests |-> "idle"]
    /\ endpoint = [r \in Requests |-> "none"]
    /\ params = [r \in Requests |-> NoParams]
    /\ resp = [r \in Requests |-> [code |-> 0, key |-> "", body |-> NoParams]]
    /\ reqCtxDone = [r \in Requests |-> FALSE]
    /\ jobCounter = 0
    /\ cpuJobs = <<>>
    /\ jobKey = [r \in Requests |-> ""]
    /\ cancelCalls = [r \in Requests |-> 0]
    /\ deletes = [r \in Requests |-> 0]
    /\ stoppedBy = [r \in Requests |-> "none"]
    /\ workerPc = [r \in Requests |-> [w \in WorkerIDs |-> "unborn"]]
    /\ cpuTimer = [r \in Requests |-> -1]
    /\ memoryBlocks = <<>>
    /\ allocKey = [r \in Requests |-> ""]
    /\ memTimer = [r \in Requests |-> -1]
    /\ logPc = [r \in Requests |-> "none"]
    /\ logEntries = [r \in Requests |-> <<>>]
    /\ ticker = [r \in Requests |-> NoChan]
    /\ durationTimer = [r \in Requests |-> NoChan]
    /\ TestMode = FALSE
    /\ killPc = [r \in Requests |-> "none"]
    /\ killTimer = [r \in Requests |-> -1]
    /\ killWaited = [r \in Requests |-> 0]
    /\ exitCode = -1
    /\ delayTimer = [r \in Requests |-> -1]
    /\ delayWaited = [r \in Requests |-> 0]
    /\ authToken = ""
    /\ cpuMutex = Unlocked
    /\ memoryMutex = Unlocked
    /\ building = [r \in Requests |-> <<>>]
    /\ cpuStats = NoStats
    /\ memStats = NoMemStats

\* requests are numbered in the order in which their handlers start
Arrives(r) ==
    /\ alive /\ pc[r] = "idle" /\ now < MaxTime
    /\ \A q \in Requests : q < r => pc[q] # "idle"

\* ------------------------------------------------------------------ /cpu
\* CPUHandler, lines 109-165: parse, validate, then under cpuMutex
\* jobCounter++ and the key is formatted
CPUHandlerKey(r, intensityStr, d) ==
    /\ Arrives(r)
    /\ endpoint' = [endpoint EXCEPT ![r] = "cpu"]
    /\ params' = [params EXCEPT ![r] =
            [NoParams EXCEPT !.intensity = EffectiveIntensity(intensityStr),
                             !.duration = ValidateDuration(d)]]
    /\ jobCounter' = jobCounter + 1
    /\ jobKey' = [jobKey EXCEPT ![r] = JobKeyFmt(jobCounter + 1, now)]
    /\ pc' = [pc EXCEPT ![r] = "cpuKeyed"]
    /\ UNCHANGED <<now, alive, resp, reqCtxDone, cpuJobs, cancelCalls,
                   deletes, stoppedBy, workerPc, cpuTimer, memVars, logVars,
                   killVars, delayVars, envVars>>

\* CPUHandler, lines 167-171: jobCtx is created and jobCancel registered
CPUHandlerRegister_Skipped(r) ==
    /\ alive /\ pc[r] = "cpuKeyed"
    /\ pc' = [pc EXCEPT ![r] = "cpuRegistered"]
    /\ UNCHANGED <<now, alive, endpoint, params, resp, reqCtxDone, cpuVars,
                   memVars, logVars, killVars, delayVars, envVars>>
CPUHandlerRegister(r) ==
    /\ alive /\ pc[r] = "cpuKeyed"
    /\ cpuJobs' = MapSet(cpuJobs, jobKey[r], r)
    /\ pc' = [pc EXCEPT ![r] = "cpuRegistered"]
    /\ UNCHANGED <<now, alive, endpoint, params, resp, reqCtxDone, jobCounter,
                   jobKey, cancelCalls, deletes, stoppedBy, workerPc,
                   cpuTimer, memVars, logVars, killVars, delayVars, envVars>>

\* generateCPULoad, lines 213-216: the only error it returns
generateCPULoadFails(intensity) == intensity \notin DOMAIN intensityLevels

\* CPUHandler, lines 173-208: generateCPULoad starts NumCPU workers, the
\* timeout goroutine is started when duration > 0, the 200 response is
\* written; if generateCPULoad returns an error the handler answers 500
\* and returns, leaving the registry as it is
CPUHandlerRespond(r) ==
    /\ alive /\ pc[r] = "cpuRegistered"
    /\ IF generateCPULoadFails(params[r].intensity)
       THEN /\ resp' = [resp EXCEPT ![r] =
                    [code |-> 500, key |-> "", body |-> NoParams]]
            /\ UNCHANGED <<workerPc, cpuTimer>>
       ELSE /\ workerPc' = [workerPc EXCEPT ![r] =
                    [w \in WorkerIDs |-> "select"]]
            /\ cpuTimer' = [cpuTimer EXCEPT ![r] =
                    IF TimeoutScheduled(params[r].duration)
                    THEN params[r].duration ELSE -1]
            /\ resp' = [resp EXCEPT ![r] =
                    [code |-> 200, key |-> jobKey[r], body |-> params[r]]]
    /\ pc' = [pc EXCEPT ![r] = "responded"]
    /\ UNCHANGED <<now, alive, endpoint, params, reqCtxDone, jobCounter,
                   cpuJobs, jobKey, cancelCalls, deletes, stoppedBy, memVars,
                   logVars, killVars, delayVars, envVars>>

\* cpuWorker, lines 246-250: the select at the top of the loop
WorkerSelect(r, w) ==
    /\ alive /\ workerPc[r][w] = "select"
    /\ workerPc' = [workerPc EXCEPT ![r][w] =
            IF JobCtxDone(r) THEN "stopped" ELSE "work"]
    /\ UNCHANGED <<now, alive, reqVars, jobCounter, cpuJobs, jobKey,
                   cancelCalls, deletes, stoppedBy, cpuTimer, memVars,
                   logVars, killVars, delayVars, envVars>>

\* cpuWorker, lines 251-261: the burst ends; sleep if configured
WorkerWork_Preempted(r, w) ==
    /\ alive /\ workerPc[r][w] = "work"
    /\ workerPc' = [workerPc EXCEPT ![r][w] =
            IF JobCtxDone(r) THEN "stopped"
            ELSE IF GetIntensityConfig(params[r].intensity).SleepDuration > 0
            THEN "sleep" ELSE "select"]
    /\ UNCHANGED <<now, alive, reqVars, jobCounter, cpuJobs, jobKey,
                   cancelCalls, deletes, stoppedBy, cpuTimer, memVars,
                   logVars, killVars, delayVars, envVars>>
WorkerWork(r, w) ==
    /\ alive /\ workerPc[r][w] = "work"
    /\ workerPc' = [workerPc EXCEPT ![r][w] =
            IF GetIntensityConfig(params[r].intensity).SleepDuration > 0
            THEN "sleep" ELSE "select"]
    /\ UNCHANGED <<now, alive, reqVars, jobCounter, cpuJobs, jobKey,
                   cancelCalls, deletes, stoppedBy, cpuTimer, memVars,
                   logVars, killVars, delayVars, envVars>>

\* cpuWorker, line 260: generator.Sleep returns
WorkerSleep(r, w) ==
    /\ alive /\ workerPc[r][w] = "sleep"
    /\ workerPc' = [workerPc EXCEPT ![r][w] = "select"]
    /\ UNCHANGED <<now, alive, reqVars, jobCounter, cpuJobs, jobKey,
                   cancelCalls, deletes, stoppedBy, cpuTimer, memVars,
                   logVars, killVars, delayVars, envVars>>

\* stopCPULoad(jobKey), called by `by`: the effect on the registry
stopCPULoad_NoDelete(key, by) ==
    IF key \in DOMAIN cpuJobs
    THEN LET j == cpuJobs[key] IN
         /\ cancelCalls' = [cancelCalls EXCEPT ![j] = @ + 1]
         /\ stoppedBy' = [stoppedBy EXCEPT ![j] = IF @ = "none" THEN by ELSE @]
         /\ UNCHANGED <<cpuJobs, deletes, killVars, delayVars>>
    ELSE UNCHANGED <<cpuJobs, cancelCalls, deletes, stoppedBy, killVars,
                     delayVars>>

stopCPULoad_NoExistsCheck(key, by) ==
    LET js == {r \in Requests : jobKey[r] = key} IN
    /\ cancelCalls' = [r \in Requests |->
            IF r \in js THEN cancelCalls[r] + 1 ELSE cancelCalls[r]]
    /\ deletes' = [r \in Requests |->
            IF r \in js THEN deletes[r] + 1 ELSE deletes[r]]
    /\ stoppedBy' = [r \in Requests |->
            IF r \in js /\ stoppedBy[r] = "none" THEN by ELSE stoppedBy[r]]
    /\ cpuJobs' = IF key \in DOMAIN cpuJobs
                  THEN MapDelete(cpuJobs, key) ELSE cpuJobs

stopCPULoad_NoCancel(key, by) ==
    IF key \in DOMAIN cpuJobs
    THEN LET j == cpuJobs[key] IN
         /\ cpuJobs' = MapDelete(cpuJobs, key)
         /\ deletes' = [deletes EXCEPT ![j] = @ + 1]
         /\ UNCHANGED <<cancelCalls, stoppedBy, killVars, delayVars>>
    ELSE UNCHANGED <<cpuJobs, cancelCalls, deletes, stoppedBy, killVars,
                     delayVars>>

stopCPULoad(key, by) ==
    IF key \in DOMAIN cpuJobs
    THEN LET j == cpuJobs[key] IN
         /\ cancelCalls' = [cancelCalls EXCEPT ![j] = @ + 1]
         /\ cpuJobs' = MapDelete(cpuJobs, key)
         /\ deletes' = [deletes EXCEPT ![j] = @ + 1]
         /\ stoppedBy' = [stoppedBy EXCEPT ![j] = IF @ = "none" THEN by ELSE @]
    ELSE UNCHANGED <<cpuJobs, cancelCalls, deletes, stoppedBy, killVars,
                     delayVars>>

\* CPUHandler, lines 182-186: the timeout goroutine wakes and stops the job
CPUTimeout(r) ==
    /\ alive /\ cpuTimer[r] = 0
    /\ stopCPULoad(jobKey[r], "timeout")
    /\ cpuTimer' = [cpuTimer EXCEPT ![r] = -2]
    /\ UNCHANGED <<now, alive, reqVars, jobCounter, jobKey, workerPc, memVars,
                   logVars, killVars, delayVars, envVars>>

\* stopCPULoad called from outside the handler (tests, cleanup)
ExplicitStop(key) ==
    /\ alive
    /\ stopCPULoad(key, "explicit")
    /\ UNCHANGED <<now, alive, reqVars, jobCounter, jobKey, workerPc,
                   cpuTimer, memVars, logVars, killVars, delayVars, envVars>>

\* cleanupAllJobs (cpu_test.go): cancel and delete every entry
cleanupAllJobs ==
    /\ alive
    /\ LET hit == {cpuJobs[k] : k \in DOMAIN cpuJobs} IN
       /\ cancelCalls' = [r \in Requests |->
                IF r \in hit THEN cancelCalls[r] + 1 ELSE cancelCalls[r]]
       /\ deletes' = [r \in Requests |->
                IF r \in hit THEN deletes[r] + 1 ELSE deletes[r]]
       /\ stoppedBy' = [r \in Requests |->
                IF r \in hit /\ stoppedBy[r] = "none"
                THEN "cancelAll" ELSE stoppedBy[r]]
    /\ cpuJobs' = <<>>
    /\ UNCHANGED <<now, alive, reqVars, jobCounter, jobKey, workerPc,
                   cpuTimer, memVars, logVars, killVars, delayVars, envVars>>

\* --------------------------------------------------------------- /memory
\* MemoryHandler, lines 27-73: parse, validate, format the allocation key
MemoryHandlerKey(r, size, d) ==
    /\ Arrives(r)
    /\ endpoint' = [endpoint EXCEPT ![r] = "memory"]
    /\ params' = [params EXCEPT ![r] =
            [NoParams EXCEPT !.size = ValidateSize(size),
                             !.duration = ValidateDuration(d)]]
    /\ allocKey' = [allocKey EXCEPT ![r] = AllocKeyFmt(now, ValidateSize(size))]
    /\ pc' = [pc EXCEPT ![r] = "memKeyed"]
    /\ UNCHANGED <<now, alive, resp, reqCtxDone, cpuVars, memoryBlocks,
                   memTimer, logVars, killVars, delayVars, envVars>>

\* allocateMemory(key, sizeMB): under memoryMutex the blocks are built and
\* stored under the key
allocateMemory(key, sizeMB, r) ==
    memoryBlocks' = MapSet(memoryBlocks, key, Blocks(sizeMB, r))

\* deallocateMemory(key): under memoryMutex the entry is deleted if present
deallocateMemory_Clear(key) == memoryBlocks' = <<>>
deallocateMemory(key) ==
    memoryBlocks' = IF key \in DOMAIN memoryBlocks
                    THEN MapDelete(memoryBlocks, key)
                    ELSE memoryBlocks

\* MemoryHandler, lines 76-81: the call of allocateMemory, which returns
\* nil on every path, so the handler's 500 branch is never taken
MemoryHandlerAllocate(r) ==
    /\ alive /\ pc[r] = "memKeyed"
    /\ allocateMemory(allocKey[r], params[r].size, r)
    /\ pc' = [pc EXCEPT ![r] = "memAllocated"]
    /\ UNCHANGED <<now, alive, endpoint, params, resp, reqCtxDone, cpuVars,
                   allocKey, memTimer, logVars, killVars, delayVars, envVars>>

\* MemoryHandler, lines 83-113: the deallocation goroutine is started when
\* duration > 0 and the 200 response is written; its body gives size and
\* duration as decimal strings
MemoryHandlerRespond(r) ==
    /\ alive /\ pc[r] = "memAllocated"
    /\ memTimer' = [memTimer EXCEPT ![r] =
            IF DeallocScheduled(params[r].duration)
            THEN params[r].duration ELSE -1]
    /\ resp' = [resp EXCEPT ![r] = [code |-> 200, key |-> allocKey[r],
             body |-> [params[r] EXCEPT !.size = ToString(@),
                                        !.duration = ToString(@)]]]
    /\ pc' = [pc EXCEPT ![r] = "responded"]
    /\ UNCHANGED <<now, alive, endpoint, params, reqCtxDone, cpuVars,
                   memoryBlocks, allocKey, logVars, killVars, delayVars,
                   envVars>>

\* MemoryHandler, lines 85-89: the goroutine wakes and deallocates
MemoryTimeout(r) ==
    /\ alive /\ memTimer[r] = 0
    /\ deallocateMemory(allocKey[r])
    /\ memTimer' = [memTimer EXCEPT ![r] = -2]
    /\ UNCHANGED <<now, alive, reqVars, cpuVars, allocKey, logVars, killVars,
                   delayVars, envVars>>

\* ------------------------------------------------------------------ /log
Responded(r) == pc[r] \in {"responded", "done"}

\* strings.ToLower, on the strings the requests of this model carry
ToLower(s) ==
    CASE s = "RANDOM" -> "random"
      [] s = "INFO" -> "info"
      [] s = "Long" -> "long"
      [] OTHER -> s

\* strings.HasSuffix
HasSuffix_Contains(s, suffix) ==
    \E i \in 1..Len(s) :
        /\ i + Len(suffix) - 1 <= Len(s)
        /\ SubSeq(s, i, i + Len(suffix) - 1) = suffix
HasSuffix(s, suffix) ==
    /\ Len(s) >= Len(suffix)
    /\ SubSeq(s, Len(s) - Len(suffix) + 1, Len(s)) = suffix

FakeMarker == "(Fake message)"

\* isValidLevel, isValidSize and the defaulting LogHandler does with them
isValidLevel(level) ==
    ToLower(level) \in {"info", "warning", "error", "random"}
isValidSize(size) == ToLower(size) \in {"short", "medium", "long", "random"}
ValidateLevel(level) ==
    IF level = "" \/ ~isValidLevel(level) THEN "info" ELSE level
ValidateLogSize(size) ==
    IF size = "" \/ ~isValidSize(size) THEN "short" ELSE size

\* generateLogMessage's tables: the first two messages of shortMessages
\* and of mediumMessages, the first of longMessages
shortMessages ==
    <<"System operational (Fake message)", "Task completed (Fake message)">>
mediumMessages ==
    <<"User authentication successful for session ABC123, " \o
      "redirecting to dashboard (Fake message)",
      "Database connection pool initialized with 10 connections, " \o
      "ready to serve requests (Fake message)">>
longMessages ==
    <<"System performance analysis completed: CPU usage averaged 35% " \o
      "over the last hour with peaks reaching 78% during batch " \o
      "processing operations. Memory consumption remained stable at " \o
      "2.1GB with minimal garbage collection overhead. Network I/O " \o
      "showed consistent patterns with 450MB inbound and 320MB " \o
      "outbound traffic. Database query performance metrics indicate " \o
      "average response time of 45ms with 99th percentile at 180ms. " \o
      "(Fake message)">>

Elements(seq) == {seq[i] : i \in DOMAIN seq}

\* generateLogMessage: the messages rand.Intn may pick for the size
generateLogMessage(size) ==
    CASE ToLower(size) = "short" -> Elements(shortMessages)
      [] ToLower(size) = "medium" -> Elements(mediumMessages)
      [] ToLower(size) = "long" -> Elements(longMessages)
      [] ToLower(size) = "random" ->
            Elements(shortMessages) \cup Elements(mediumMessages)
                \cup Elements(longMessages)
      [] OTHER -> {shortMessages[1]}

\* getActualLevel: the levels one call may return
getActualLevel_Identity(level) == {level}
getActualLevel(level) ==
    IF ToLower(level) = "random" THEN {"info", "warning", "error"}
    ELSE {level}

\* getActualMessage: the messages one call may return
getActualMessage(customMessage, size) ==
    IF customMessage # ""
    THEN IF ~HasSuffix(customMessage, FakeMarker)
         THEN {customMessage \o " (Fake message)"}
         ELSE {customMessage}
    ELSE generateLogMessage(size)

\* generateLogEntry(ctx, getActualLevel(..), getActualMessage(..)): one
\* entry, written by the handler or by the goroutine with the parameters p;
\* `at` is the position of the request's handler when it is written
EmitWith(r, by, p) ==
    \E level \in getActualLevel(p.level),
       message \in getActualMessage(p.message, p.logSize) :
        logEntries' = [logEntries EXCEPT ![r] =
            Append(@, [by |-> by, at |-> pc[r], level |-> level,
                       message |-> message])]

Emit(r, by) == EmitWith(r, by, params[r])

\* LogHandler, lines 530-670: parse, validate; log once inline or start the
\* background goroutine
LogHandler(r, level, size, message, interval, d) ==
    /\ Arrives(r)
    /\ endpoint' = [endpoint EXCEPT ![r] = "log"]
    /\ params' = [params EXCEPT ![r] =
            [NoParams EXCEPT !.level = ValidateLevel(level),
                             !.logSize = ValidateLogSize(size),
                             !.message = message,
                             !.interval = ValidateInterval(interval),
                             !.duration = ValidateLogDuration(d)]]
    /\ IF LogsInline(ValidateInterval(interval), ValidateLogDuration(d))
       THEN EmitWith(r, "handler", params'[r]) /\ UNCHANGED logPc
       ELSE logPc' = [logPc EXCEPT ![r] = "spawned"] /\ UNCHANGED logEntries
    /\ pc' = [pc EXCEPT ![r] = "logStarted"]
    /\ UNCHANGED <<now, alive, resp, reqCtxDone, cpuVars, memVars, ticker,
                   durationTimer, killVars, delayVars, envVars>>

\* GET /log?level=info&message=Custom%20message with an interval and a
\* duration
CustomMessage == "Custom message"
LogHandlerStart(r, interval, d) ==
    LogHandler(r, "info", "", CustomMessage, interval, d)

\* LogHandler, lines 672-684: the 200 response; its message is one more
\* result of getActualMessage
LogHandlerRespond(r) ==
    /\ alive /\ pc[r] = "logStarted"
    /\ \E message \in getActualMessage(params[r].message, params[r].logSize) :
        resp' = [resp EXCEPT ![r] =
            [code |-> 200, key |-> "",
             body |-> [params[r] EXCEPT !.message = message]]]
    /\ pc' = [pc EXCEPT ![r] = "responded"]
    /\ UNCHANGED <<now, alive, endpoint, params, reqCtxDone, cpuVars, memVars,
                   logVars, killVars, delayVars, envVars>>

\* goroutine, lines 632-653: create ticker and timer, log immediately,
\* return (running the deferred Stop) when there is no interval
LogGoStart(r) ==
    /\ alive /\ logPc[r] = "spawned"
    /\ Emit(r, "goroutine")
    /\ IF params[r].interval = 0
       THEN /\ logPc' = [logPc EXCEPT ![r] = "done"]
            /\ UNCHANGED <<ticker, durationTimer, killVars, delayVars,
                           envVars>>
       ELSE /\ logPc' = [logPc EXCEPT ![r] = "loop"]
            /\ ticker' = [ticker EXCEPT ![r] =
                    [left |-> params[r].interval, c |-> 0]]
            /\ durationTimer' = [durationTimer EXCEPT ![r] =
                    IF params[r].duration > 0
                    THEN [left |-> params[r].duration, c |-> 0]
                    ELSE NoChan]
    /\ UNCHANGED <<now, alive, reqVars, cpuVars, memVars, killVars, delayVars,
                   envVars>>

\* goroutine, lines 656-661: the select receives from ticker.C
LogTick(r) ==
    /\ alive /\ logPc[r] = "loop"
    /\ durationTimer[r].left # -1
    /\ ticker[r].c = 1
    /\ Len(logEntries[r]) < MaxEntries
    /\ Emit(r, "goroutine")
    /\ ticker' = [ticker EXCEPT ![r].c = 0]
    /\ UNCHANGED <<now, alive, reqVars, cpuVars, memVars, logPc,
                   durationTimer, killVars, delayVars, envVars>>

\* goroutine, lines 662-666: the select receives from durationTimer.C and
\* the goroutine returns, stopping ticker and timer
LogExpire(r) ==
    /\ alive /\ logPc[r] = "loop"
    /\ durationTimer[r].left # -1
    /\ durationTimer[r].c = 1
    /\ logPc' = [logPc EXCEPT ![r] = "done"]
    /\ ticker' = [ticker EXCEPT ![r] = NoChan]
    /\ durationTimer' = [durationTimer EXCEPT ![r] = NoChan]
    /\ UNCHANGED <<now, alive, reqVars, cpuVars, memVars, logEntries,
                   killVars, delayVars, envVars>>

\* goroutine, line 662: with duration = 0 durationTimer is nil, and
\* evaluating durationTimer.C on entering the select dereferences it: the
\* goroutine panics and the process exits
LogNilTimerPanic(r) ==
    /\ alive /\ logPc[r] = "loop"
    /\ durationTimer[r].left = -1
    /\ logPc' = [logPc EXCEPT ![r] = "panicked"]
    /\ alive' = FALSE
    /\ UNCHANGED <<now, reqVars, cpuVars, memVars, logEntries, ticker,
                   durationTimer, killVars, delayVars, envVars>>

\* ------------------------------------------------------------ common
\* the handler returns: deferred cancel() / net/http cancel the request
\* context
HandlerReturn(r) ==
    /\ alive /\ pc[r] = "responded"
    /\ pc' = [pc EXCEPT ![r] = "done"]
    /\ reqCtxDone' = [reqCtxDone EXCEPT ![r] = TRUE]
    /\ UNCHANGED <<now, alive, endpoint, params, resp, cpuVars, memVars,
                   logVars, killVars, delayVars, envVars>>

\* one second passes: sleeping goroutines get closer to waking, tickers
\* and timers deliver on their (1-buffered) channels
Sleep1(n) == IF n > 0 THEN n - 1 ELSE n
TickerStep_OneShot(t, interval) ==
    IF t.left = -1 THEN t
    ELSE IF t.left = 1 THEN [left |-> 0, c |-> 1]
    ELSE IF t.left = 0 THEN t
    ELSE [t EXCEPT !.left = @ - 1]
TickerStep(t, interval) ==
    IF t.left = -1 THEN t
    ELSE IF t.left = 1 THEN [left |-> interval, c |-> 1]
    ELSE [t EXCEPT !.left = @ - 1]
TimerStep(t) ==
    IF t.left <= 0 THEN t
    ELSE IF t.left = 1 THEN [left |-> 0, c |-> 1]
    ELSE [t EXCEPT !.left = @ - 1]

\* a sleeper's seconds since it went to sleep, counted up to MaxWaited
Waited(n, sleeping) == IF sleeping /\ n < MaxWaited THEN n + 1 ELSE n

Tick ==
    /\ alive
    /\ now' = IF now < MaxTime THEN now + 1 ELSE now
    /\ cpuTimer' = [r \in Requests |-> Sleep1(cpuTimer[r])]
    /\ memTimer' = [r \in Requests |-> Sleep1(memTimer[r])]
    /\ ticker' = [r \in Requests |-> TickerStep(ticker[r], params[r].interval)]
    /\ durationTimer' = [r \in Requests |-> TimerStep(durationTimer[r])]
    /\ killTimer' = [r \in Requests |-> Sleep1(killTimer[r])]
    /\ killWaited' = [r \in Requests |->
            Waited(killWaited[r], killPc[r] = "waiting")]
    /\ delayTimer' = [r \in Requests |-> Sleep1(delayTimer[r])]
    /\ delayWaited' = [r \in Requests |->
            Waited(delayWaited[r], pc[r] = "sleeping")]
    /\ <<now, cpuTimer, memTimer, ticker, durationTimer,
         killTimer, killWaited, delayTimer, delayWaited>>' #
            <<now, cpuTimer, memTimer, ticker, durationTimer,
              killTimer, killWaited, delayTimer, delayWaited>>
    /\ UNCHANGED <<alive, reqVars, jobCounter, cpuJobs, jobKey, cancelCalls,
                   deletes, stoppedBy, workerPc, memoryBlocks, allocKey,
                   logPc, logEntries, TestMode, killPc, exitCode, envVars>>

\* --------------------------------------------------------- specification
WorkerStep(r, w) == WorkerSelect(r, w) \/ WorkerWork(r, w) \/ WorkerSleep(r, w)

CPUHandlerStep(r) ==
    CPUHandlerRegister(r) \/ CPUHandlerRespond(r) \/ HandlerReturn(r)

MemoryHandlerStep(r) ==
    MemoryHandlerAllocate(r) \/ MemoryHandlerRespond(r) \/ HandlerReturn(r)

LogHandlerStep(r) == LogHandlerRespond(r) \/ HandlerReturn(r)

LogStep(r) ==
    LogGoStart(r) \/ LogTick(r) \/ LogExpire(r) \/ LogNilTimerPanic(r)

\* the steps of /cpu requests and of the goroutines they start
CPUNext ==
    \/ \E r \in Requests, i \in IntensityInputs, d \in Durations :
            CPUHandlerKey(r, i, d)
    \/ \E r \in Requests : CPUHandlerRegister(r)
    \/ \E r \in Requests : CPUHandlerRespond(r)
    \/ \E r \in Requests, w \in WorkerIDs : WorkerSelect(r, w)
    \/ \E r \in Requests, w \in WorkerIDs : WorkerWork(r, w)
    \/ \E r \in Requests, w \in WorkerIDs : WorkerSleep(r, w)
    \/ \E r \in Requests : CPUTimeout(r)

\* the steps of /memory requests and of their deallocation goroutines
MemoryNext ==
    \/ \E r \in Requests, s \in SizeInputs, d \in Durations :
            MemoryHandlerKey(r, s, d)
    \/ \E r \in Requests : MemoryHandlerAllocate(r)
    \/ \E r \in Requests : MemoryHandlerRespond(r)
    \/ \E r \in Requests : MemoryTimeout(r)

\* the steps of /log requests and of their logging goroutines
LogNext ==
    \/ \E r \in Requests, i \in IntervalInputs, d \in Durations :
            LogHandlerStart(r, i, d)
    \/ \E r \in Requests : LogHandlerRespond(r)
    \/ \E r \in Requests : LogGoStart(r)
    \/ \E r \in Requests : LogTick(r)
    \/ \E r \in Requests : LogExpire(r)
    \/ \E r \in Requests : LogNilTimerPanic(r)

\* the steps every endpoint shares
CommonNext ==
    \/ \E r \in Requests : HandlerReturn(r)
    \/ Tick

\* the server with its three job endpoints /cpu, /memory and /log
Next == CPUNext \/ MemoryNext \/ LogNext \/ CommonNext

Spec == Init /\ [][Next]_vars

\* the Go scheduler runs every runnable goroutine, and time passes
CPUFairness ==
    /\ WF_vars(Tick)
    /\ \A r \in Requests : WF_vars(CPUHandlerStep(r))
    /\ \A r \in Requests : WF_vars(CPUTimeout(r))
    /\ \A r \in Requests, w \in WorkerIDs : WF_vars(WorkerStep(r, w))

LogFairness ==
    /\ WF_vars(Tick)
    /\ \A r \in Requests : WF_vars(LogHandlerStep(r))
    /\ \A r \in Requests : WF_vars(LogStep(r))

\* the server receiving /cpu requests only
NextCPU == CPUNext \/ CommonNext

FairSpecCPU == Init /\ [][NextCPU]_vars /\ CPUFairness

\* the server receiving /log requests only
NextLog == LogNext \/ CommonNext

FairSpecLog == Init /\ [][NextLog]_vars /\ LogFairness

\* the keys a caller of stopCPULoad can name: those that were registered
\* (visible in GetCPUStats and in responses), and one that never was
StopKeys ==
    {jobKey[r] : r \in {q \in Requests :
                        pc[q] \in {"cpuRegistered", "responded", "done"}
                        /\ endpoint[q] = "cpu"}}
        \cup {"cpu-job-0-unknown"}

\* the server receiving /cpu requests of the default intensity, together
\* with callers of stopCPULoad and cleanupAllJobs
NextStop ==
    \/ \E r \in Requests, d \in Durations : CPUHandlerKey(r, Medium, d)
    \/ \E r \in Requests : CPUHandlerRegister(r)
    \/ \E r \in Requests : CPUHandlerRespond(r)
    \/ \E r \in Requests, w \in WorkerIDs : WorkerSelect(r, w)
    \/ \E r \in Requests, w \in WorkerIDs : WorkerWork(r, w)
    \/ \E r \in Requests, w \in WorkerIDs : WorkerSleep(r, w)
    \/ \E r \in Requests : CPUTimeout(r)
    \/ CommonNext
    \/ \E k \in StopKeys : ExplicitStop(k)
    \/ cleanupAllJobs

SpecStop == Init /\ [][NextStop]_vars

\* ------------------------------------------------------------ vocabulary
IsCPU(r) == endpoint[r] = "cpu"
IsMemory(r) == endpoint[r] = "memory"
IsLog(r) == endpoint[r] = "log"
Registered(r) == jobKey[r] \in DOMAIN cpuJobs /\ cpuJobs[jobKey[r]] = r
Spawned(r) == \A w \in WorkerIDs : workerPc[r][w] # "unborn"
AllStopped(r) == \A w \in WorkerIDs : workerPc[r][w] = "stopped"
Running(r) == \A w \in WorkerIDs : workerPc[r][w] \in {"select", "work", "sleep"}

\* ---------------------------------------------------------------- claims

\* C1: a /cpu request with duration d > 0 gets its 200 response while the
\* job is still ahead of it (all workers running, the d-second timer
\* pending) and with its key registered; when the handler returns the key
\* is still registered unless the timer has fired already; the step in
\* which the timer fires removes the key and invokes the job's cancel; and
\* every such job eventually has its timer fired, its key out of the
\* registry and all its workers stopped.
C1_Step ==
    \A r \in Requests :
        /\ (pc[r] = "cpuRegistered" /\ pc'[r] = "responded"
                /\ params[r].duration > 0)
            => /\ resp'[r].code = 200
               /\ resp'[r].key \in DOMAIN cpuJobs'
               /\ cpuJobs'[resp'[r].key] = r
               /\ cpuTimer'[r] = params[r].duration
               /\ Running(r)'
        /\ (IsCPU(r) /\ pc[r] = "responded" /\ pc'[r] = "done"
                /\ params[r].duration > 0)
            => (Registered(r)' \/ cpuTimer'[r] = -2)
        /\ (cpuTimer[r] = 0 /\ cpuTimer'[r] = -2)
            => /\ jobKey[r] \notin DOMAIN cpuJobs'
               /\ cancelCalls'[r] = 1

C1_TimedJobSelfTerminates ==
    /\ [][C1_Step]_vars
    /\ \A r \in Requests :
            (IsCPU(r) /\ Responded(r) /\ params[r].duration > 0)
                ~> (/\ cpuTimer[r] = -2
                    /\ jobKey[r] \notin DOMAIN cpuJobs
                    /\ AllStopped(r))

C1_Witness ==
    \E r \in Requests :
        /\ IsCPU(r) /\ params[r].duration > 0 /\ resp[r].code = 200
        /\ cpuTimer[r] = -2 /\ stoppedBy[r] = "timeout"
        /\ jobKey[r] \notin DOMAIN cpuJobs /\ AllStopped(r)

\* C2: for a /memory request with duration d > 0, the key of the response
\* is in memoryBlocks when the response has been produced and the handler
\* is about to return (its timer not having run at all yet); and once its
\* timer has fired and every /memory request has returned with no timer
\* pending, the key is not in memoryBlocks.
C2_TimedAllocationPresentThenFreed ==
    \A r \in Requests :
        (IsMemory(r) /\ params[r].duration > 0)
        => /\ (pc[r] = "responded" /\ memTimer[r] = params[r].duration)
                => resp[r].key \in DOMAIN memoryBlocks
           /\ (/\ memTimer[r] = -2
               /\ \A o \in Requests :
                    IsMemory(o) => (pc[o] = "done" /\ memTimer[o] < 0))
                => resp[r].key \notin DOMAIN memoryBlocks

\* C3: for a /memory request with duration 0 nothing is scheduled and the
\* returned key is in memoryBlocks in every later state, whatever other
\* /memory requests and deallocation timers do.
C3_ZeroDurationAllocationStays ==
    \A r \in Requests :
        (IsMemory(r) /\ params[r].duration = 0 /\ Responded(r))
        => /\ memTimer[r] = -1
           /\ resp[r].key \in DOMAIN memoryBlocks

\* C4: any two /cpu requests have distinct job keys, also when the keys
\* are formatted in the same second; stopping one job (stopCPULoad by a
\* caller or by the job's timeout) leaves every other job's registry
\* entry, cancel function and workers untouched; and all workers of a job
\* share its cancellation: at its check a worker stops if its own job was
\* cancelled and goes on working otherwise.
C4_StopOne(r) == CPUTimeout(r) \/ (ExplicitStop(jobKey[r]) /\ jobKey[r] # "")

C4_Step ==
    /\ \A r, o \in Requests :
            (r # o /\ IsCPU(r)' /\ IsCPU(o)') => jobKey'[r] # jobKey'[o]
    /\ \A r, o \in Requests :
            (r # o /\ C4_StopOne(r))
            => /\ cancelCalls'[o] = cancelCalls[o]
               /\ workerPc'[o] = workerPc[o]
               /\ Registered(o) => Registered(o)'
    /\ \A r \in Requests, w \in WorkerIDs :
            (workerPc[r][w] = "select" /\ workerPc'[r][w] # "select")
            => workerPc'[r][w] =
                    IF cancelCalls[r] > 0 THEN "stopped" ELSE "work"

C4_DistinctKeysIndependentCancel == [][C4_Step]_vars

C4_Witness ==
    \E r, o \in Requests :
        /\ r # o /\ IsCPU(r) /\ IsCPU(o)
        /\ resp[r].code = 200 /\ resp[o].code = 200
        /\ \E t \in 0..MaxTime :
                /\ jobKey[r] = JobKeyFmt(1, t)
                /\ jobKey[o] = JobKeyFmt(2, t)
        /\ cancelCalls[r] = 1 /\ AllStopped(r)
        /\ Registered(o) /\ Running(o)

\* C5: a CPU job only moves forward through none < Created (registered) <
\* Running (workers started) < terminal (cancel invoked) and the terminal
\* state is kept: the recorded cause never changes, a stopped worker stays
\* stopped, no burst begins once the job's context is done, a removed key
\* is never back in the registry, and the entry is removed exactly once
\* (with one invocation of cancel) whichever path ended the job.
C5_Rank(r) ==
    IF cancelCalls[r] > 0 THEN 3
    ELSE IF Spawned(r) THEN 2
    ELSE IF Registered(r) THEN 1
    ELSE 0

C5_Step ==
    \A r \in Requests :
        /\ C5_Rank(r)' >= C5_Rank(r)
        /\ C5_Rank(r)' <= C5_Rank(r) + 1 \/ C5_Rank(r)' = 3
        /\ stoppedBy[r] # "none" => stoppedBy'[r] = stoppedBy[r]
        /\ deletes[r] > 0 => jobKey[r] \notin DOMAIN cpuJobs'
        /\ \A w \in WorkerIDs :
            /\ workerPc[r][w] = "stopped" => workerPc'[r][w] = "stopped"
            /\ (JobCtxDone(r) /\ workerPc[r][w] # "work")
                    => workerPc'[r][w] # "work"
        /\ deletes'[r] <= 1
        /\ (C5_Rank(r)' = 3) <=> (deletes'[r] = 1)
        /\ (C5_Rank(r)' = 3) <=> (stoppedBy'[r] # "none")

C5_TerminalIsFinal == [][C5_Step]_vars

C5_Witness ==
    \E r, o \in Requests :
        /\ stoppedBy[r] = "explicit" /\ cpuTimer[r] = -2 /\ deletes[r] = 1
        /\ stoppedBy[o] = "cancelAll" /\ deletes[o] = 1 /\ AllStopped(o)

\* C6: stopCPULoad for a key that is not in the registry changes nothing:
\* no cancel function is invoked, and the registry, the counters and every
\* job's workers are as before, be the caller the job's own timeout or
\* anyone else; when a timeout and an explicit call race for one job its
\* cancel function is invoked once in total.
C6_Step ==
    /\ \A k \in StopKeys :
            (ExplicitStop(k) /\ k \notin DOMAIN cpuJobs)
            => UNCHANGED <<cpuJobs, cancelCalls, deletes, stoppedBy,
                           workerPc, jobCounter, cpuTimer>>
    /\ \A r \in Requests :
            (cpuTimer[r] = 0 /\ cpuTimer'[r] = -2
                /\ jobKey[r] \notin DOMAIN cpuJobs)
            => UNCHANGED <<cpuJobs, cancelCalls, deletes, stoppedBy,
                           workerPc, jobCounter>>
    /\ \A r \in Requests : cancelCalls'[r] <= 1

C6_StopAbsentIsNoop == [][C6_Step]_vars

C6_Witness ==
    \E r \in Requests :
        /\ cancelCalls[r] = 1 /\ deletes[r] = 1
        /\ cpuTimer[r] = -2 /\ stoppedBy[r] = "explicit"

\* C7 (as claimed): a key in the registry belongs to exactly one live
\* runner, and when a job's key is absent none of its workers is still
\* executing.
C7_AbsentMeansNoWorkerExecuting ==
    \A r \in Requests :
        IsCPU(r) =>
            /\ jobKey[r] \in DOMAIN cpuJobs
                => (Registered(r) /\ ~JobCtxDone(r))
            /\ jobKey[r] \notin DOMAIN cpuJobs
                => \A w \in WorkerIDs : workerPc[r][w] \in {"unborn", "stopped"}

\* C7 (amended): a key in the registry belongs to exactly one job, whose
\* cancel function has not been invoked and none of whose workers has
\* stopped; when a job's key is absent the job was not registered yet or
\* its cancel function has been invoked (its workers may still be
\* finishing a burst).
C7_PresentIffNotCancelled ==
    \A r \in Requests :
        IsCPU(r) =>
            /\ Cardinality({o \in Requests : jobKey[o] = jobKey[r]}) = 1
            /\ jobKey[r] \in DOMAIN cpuJobs
                => /\ Registered(r) /\ cancelCalls[r] = 0
                   /\ \A w \in WorkerIDs : workerPc[r][w] # "stopped"
            /\ jobKey[r] \notin DOMAIN cpuJobs
                => (pc[r] = "cpuKeyed" \/ cancelCalls[r] > 0)

C7_Witness ==
    \E r, o \in Requests :
        /\ IsCPU(r) /\ jobKey[r] \notin DOMAIN cpuJobs /\ cancelCalls[r] > 0
        /\ \E w \in WorkerIDs : workerPc[r][w] = "work"
        /\ Registered(o) /\ Running(o)

\* C8: for a /cpu request with duration 0 no timeout goroutine exists, and
\* as long as nobody has called stopCPULoad or cleanupAllJobs for the job
\* its key is in the registry and all its workers are running.
C8_ZeroDurationRunsUntilStopped ==
    \A r \in Requests :
        (IsCPU(r) /\ params[r].duration = 0 /\ Responded(r))
        => /\ cpuTimer[r] = -1
           /\ stoppedBy[r] \in {"none", "explicit", "cancelAll"}
           /\ stoppedBy[r] = "none" => (Registered(r) /\ Running(r))

C8_Witness ==
    \E r \in Requests :
        /\ IsCPU(r) /\ params[r].duration = 0 /\ pc[r] = "done"
        /\ now = MaxTime /\ stoppedBy[r] = "none"
        /\ Registered(r) /\ \E w \in WorkerIDs : workerPc[r][w] = "work"

\* C9: after the handler has returned (the request context is cancelled)
\* the job goes on: the workers of a CPU job that was not cancelled are
\* all running, a timed memory allocation whose own timer is still asleep
\* is in memoryBlocks, and an interval logging goroutine whose duration timer
\* is still counting is in its loop.
C9_JobsOutliveRequest ==
    \A r \in Requests :
        reqCtxDone[r]
        => /\ (IsCPU(r) /\ cancelCalls[r] = 0) => Running(r)
           /\ (IsMemory(r) /\ memTimer[r] > 0)
                => allocKey[r] \in DOMAIN memoryBlocks
           /\ (IsLog(r) /\ durationTimer[r].left > 0) => logPc[r] = "loop"

\* C10: a /log request with interval 0 produces exactly one entry: with
\* duration 0 the handler writes it before the response, with duration > 0
\* the background goroutine writes it and returns; no ticker or timer is
\* left running for it, and the one entry is always written eventually (as
\* long as the process lives).
C10_State ==
    \A r \in Requests :
        (IsLog(r) /\ params[r].interval = 0)
        => /\ ticker[r] = NoChan /\ durationTimer[r] = NoChan
           /\ params[r].duration = 0
                => /\ logPc[r] = "none"
                   /\ Len(logEntries[r]) = 1
                   /\ logEntries[r][1].by = "handler"
                   /\ logEntries[r][1].at = "idle"
           /\ params[r].duration > 0
                => \/ logPc[r] = "spawned" /\ logEntries[r] = <<>>
                   \/ /\ logPc[r] = "done"
                      /\ Len(logEntries[r]) = 1
                      /\ logEntries[r][1].by = "goroutine"

C10_IntervalZeroLogsOnce ==
    /\ []C10_State
    /\ \A r \in Requests :
            (IsLog(r) /\ params[r].interval = 0)
                ~> \/ /\ logPc[r] \in {"none", "done"}
                      /\ Len(logEntries[r]) = 1
                   \/ ~alive

C10_Witness ==
    \E r, o \in Requests :
        /\ IsLog(r) /\ params[r].interval = 0 /\ params[r].duration > 0
        /\ logPc[r] = "done" /\ Len(logEntries[r]) = 1 /\ pc[r] = "done"
        /\ IsLog(o) /\ params[o].interval = 0 /\ params[o].duration = 0
        /\ Len(logEntries[o]) = 1 /\ pc[o] = "done"

\* ------------------------------------------------- /log, interval jobs
MaxLogDuration == 2  \* largest duration (seconds) of an interval log job

\* interval jobs with a duration: ?interval=i&duration=d, i and d positive
TimedIntervals == {1, 2}
TimedDurations == 1..MaxLogDuration

\* a logging goroutine that can run now: it was just started, or one of the
\* channels of its select has a value
LogReady(r) ==
    \/ logPc[r] = "spawned"
    \/ /\ logPc[r] = "loop"
       /\ (ticker[r].c = 1 \/ durationTimer[r].c = 1)

\* a second passes only when no logging goroutine is ready to run: the
\* scheduler runs a ready goroutine well within a second
TimelyTick == Tick /\ \A r \in Requests : ~LogReady(r)

\* the server receiving timed interval /log requests
NextLogTimed ==
    \/ \E r \in Requests, i \in TimedIntervals, d \in TimedDurations :
            LogHandlerStart(r, i, d)
    \/ \E r \in Requests : LogHandlerRespond(r)
    \/ \E r \in Requests : LogGoStart(r)
    \/ \E r \in Requests : LogTick(r)
    \/ \E r \in Requests : LogExpire(r)
    \/ \E r \in Requests : HandlerReturn(r)
    \/ TimelyTick

SpecLogTimed == Init /\ [][NextLogTimed]_vars

\* C11: a /log job with interval i > 0 and duration d > 0 writes nothing
\* before its goroutine runs, then one entry at once and one entry per
\* elapsed interval (the entries written plus the tick waiting in ticker.C
\* are 1 + elapsed \div i) until the duration timer is received; then the
\* goroutine is done with ticker and timer stopped, the total is d \div i
\* or d \div i + 1, and no entry is written afterwards.
C11_State ==
    \A r \in Requests :
        (IsLog(r) /\ params[r].interval > 0 /\ params[r].duration > 0)
        => LET i == params[r].interval
               d == params[r].duration
               n == Len(logEntries[r])
           IN  /\ logPc[r] \in {"spawned", "loop", "done"}
               /\ logPc[r] = "spawned" => n = 0
               /\ logPc[r] = "loop"
                    => /\ n + ticker[r].c
                            = 1 + ((d - durationTimer[r].left) \div i)
                       /\ logEntries[r][1].by = "goroutine"
               /\ logPc[r] = "done"
                    => /\ n \in {d \div i, (d \div i) + 1}
                       /\ n >= 1
                       /\ ticker[r] = NoChan
                       /\ durationTimer[r] = NoChan

C11_Step ==
    /\ C11_State'
    /\ \A r \in Requests :
            logPc[r] = "done"
            => (logPc'[r] = "done" /\ logEntries'[r] = logEntries[r])

C12_EndlessIntervalJobKeepsLogging ==
    \A r \in Requests :
        (IsLog(r) /\ params[r].interval > 0 /\ params[r].duration = 0)
        => /\ logPc[r] \in {"spawned", "loop"}
           /\ logPc[r] = "loop"
                => /\ Len(logEntries[r]) >= 1
                   /\ ticker[r].left > 0
           /\ (\A o \in Requests : logPc[o] # "panicked") => alive

\* ----------------------------------------------------------------- /kill
KillDelayInputs == {0, 1}
ExitCodeInputs == {0, 3}

\* KillHandler's validation of delay and exit code
ValidateKillDelay(d) == IF d < 0 \/ d > 3600 THEN 0 ELSE d
ValidateExitCode(c) == IF c < 0 \/ c > 255 THEN 0 ELSE c

\* `if params.Delay > 0 { time.Sleep(params.Delay seconds) }`
KillSleep_None(delay) == 0
KillSleep(delay) == IF delay > 0 THEN delay ELSE 0

\* the test binary's init() sets kill.TestMode before any request is made
SetTestMode ==
    /\ alive /\ ~TestMode
    /\ \A r \in Requests : pc[r] = "idle"
    /\ TestMode' = TRUE
    /\ UNCHANGED <<now, alive, reqVars, cpuVars, memVars, logVars, killPc,
                   killTimer, killWaited, exitCode, delayVars, envVars>>

\* KillHandler, lines 23-74: parse, validate, write the 200 response
KillHandlerRespond(r, delay, code) ==
    /\ Arrives(r)
    /\ endpoint' = [endpoint EXCEPT ![r] = "kill"]
    /\ params' = [params EXCEPT ![r] =
            [NoParams EXCEPT !.delay = ValidateKillDelay(delay),
                             !.code = ValidateExitCode(code)]]
    /\ resp' = [resp EXCEPT ![r] =
            [code |-> 200, key |-> "", body |-> params'[r]]]
    /\ pc' = [pc EXCEPT ![r] = "killResponded"]
    /\ UNCHANGED <<now, alive, reqCtxDone, cpuVars, memVars, logVars,
                   killVars, delayVars, envVars>>

\* KillHandler, lines 77-95: the go statement; the handler is left to return
KillHandlerSchedule(r) ==
    /\ alive /\ pc[r] = "killResponded"
    /\ killPc' = [killPc EXCEPT ![r] = "spawned"]
    /\ pc' = [pc EXCEPT ![r] = "responded"]
    /\ UNCHANGED <<now, alive, endpoint, params, resp, reqCtxDone, cpuVars,
                   memVars, logVars, TestMode, killTimer, killWaited,
                   exitCode, delayVars, envVars>>

\* goroutine, lines 78-84: sleep for the delay, if there is one
KillGoStart(r) ==
    /\ alive /\ killPc[r] = "spawned"
    /\ killPc' = [killPc EXCEPT ![r] = "waiting"]
    /\ killTimer' = [killTimer EXCEPT ![r] = KillSleep(params[r].delay)]
    /\ UNCHANGED <<now, alive, reqVars, cpuVars, memVars, logVars, TestMode,
                   killWaited, exitCode, delayVars, envVars>>

\* goroutine, lines 86-93: os.Exit(params.Code) unless TestMode is set
KillTerminate(r) ==
    /\ alive /\ killPc[r] = "waiting" /\ killTimer[r] = 0
    /\ killTimer' = [killTimer EXCEPT ![r] = -2]
    /\ IF TestMode
       THEN /\ killPc' = [killPc EXCEPT ![r] = "done"]
            /\ UNCHANGED <<alive, exitCode>>
       ELSE /\ killPc' = [killPc EXCEPT ![r] = "exited"]
            /\ alive' = FALSE
            /\ exitCode' = params[r].code
    /\ UNCHANGED <<now, reqVars, cpuVars, memVars, logVars, TestMode,
                   killWaited, delayVars, envVars>>

KillHandlerStep(r) == KillHandlerSchedule(r) \/ HandlerReturn(r)

KillStep(r) == KillGoStart(r) \/ KillTerminate(r)

\* the steps of /kill requests and of their termination goroutines
KillNext ==
    \/ \E r \in Requests, d \in KillDelayInputs, c \in ExitCodeInputs :
            KillHandlerRespond(r, d, c)
    \/ \E r \in Requests : KillHandlerSchedule(r)
    \/ \E r \in Requests : KillGoStart(r)
    \/ \E r \in Requests : KillTerminate(r)

\* the server receiving /kill and /memory requests, in or out of test mode
NextKill == SetTestMode \/ KillNext \/ MemoryNext \/ CommonNext

KillFairness ==
    /\ WF_vars(Tick)
    /\ \A r \in Requests : WF_vars(KillHandlerStep(r))
    /\ \A r \in Requests : WF_vars(KillStep(r))

FairSpecKill == Init /\ [][NextKill]_vars /\ KillFairness

IsKill(r) == endpoint[r] = "kill"
Scheduled(r) == killPc[r] \in {"spawned", "waiting"}

\* C13 (as stated): outside test mode, whenever a termination has been
\* scheduled for a /kill request and the process has terminated, it
\* terminated with that request's validated exit code, that request's
\* validated delay after the termination was scheduled.
C13_ExitsWithItsCodeAfterItsDelay ==
    \A r \in Requests :
        (killPc[r] # "none" /\ ~TestMode /\ ~alive)
            => /\ exitCode = params[r].code
               /\ killWaited[r] >= params[r].delay

\* C13: outside test mode a /kill request's 200 response, echoing the
\* validated delay and code, is written before its termination is scheduled;
\* a scheduled termination stays scheduled, through every step of any
\* request, until it fires or the process has ended; it is ready to fire at
\* once when delay = 0; when it fires at least `delay` seconds have passed
\* and the process ends with the request's exit code, which lies in 0..255;
\* the process ends in no other way; and once a termination is scheduled
\* the process eventually ends.
C13_Step ==
    /\ \A r \in Requests :
        /\ (killPc[r] = "none" /\ killPc'[r] # "none")
            => /\ killPc'[r] = "spawned"
               /\ resp[r].code = 200
               /\ resp[r].body.delay = params[r].delay
               /\ resp[r].body.code = params[r].code
        /\ Scheduled(r)
            => /\ params'[r] = params[r]
               /\ \/ killPc'[r] = killPc[r]
                  \/ killPc[r] = "spawned" /\ killPc'[r] = "waiting"
                  \/ killPc[r] = "waiting" /\ killPc'[r] \in {"exited", "done"}
        /\ (killPc[r] = "spawned" /\ killPc'[r] = "waiting"
                /\ params[r].delay = 0)
            => killTimer'[r] = 0
        /\ (killPc[r] = "waiting" /\ killPc'[r] # "waiting")
            => /\ killWaited[r] >= params[r].delay
               /\ params[r].delay \in 0..3600
               /\ params[r].code \in 0..255
               /\ IF TestMode
                  THEN killPc'[r] = "done" /\ alive' /\ exitCode' = exitCode
                  ELSE killPc'[r] = "exited" /\ ~alive'
                        /\ exitCode' = params[r].code
    /\ (alive /\ ~alive')
        => \E r \in Requests : killPc[r] = "waiting" /\ killPc'[r] = "exited"

C13_ScheduledKillFires ==
    /\ [][C13_Step]_vars
    /\ \A r \in Requests : (Scheduled(r) /\ ~TestMode) ~> ~alive

C13_Witness ==
    \E r, o \in Requests :
        /\ r # o /\ ~alive /\ ~TestMode
        /\ killPc[r] = "exited" /\ params[r].delay = 1 /\ exitCode = 3
        /\ killWaited[r] >= 1 /\ pc[r] = "done" /\ reqCtxDone[r]
        /\ IsMemory(o) /\ Responded(o)

\* ------------------------------------------------------------ POST bodies
\* a request body is the sequence of texts the JSON decoder finds in it
GoodJSON == "{\"duration\":1}"
BadJSON == "{invalid json"
PostBodies == {<<>>, <<BadJSON>>, <<GoodJSON>>, <<GoodJSON, BadJSON>>}

WellFormedJSON(text) == text = GoodJSON

\* json.NewDecoder(r.Body).Decode(&params): reads the first value of the
\* body into params, whose other fields keep their defaults; what follows
\* that value is not read
Decode_Lenient(body, defaults) == [err |-> FALSE, v |-> defaults]
Decode(body, defaults) ==
    IF body = <<>> \/ ~WellFormedJSON(Head(body))
    THEN [err |-> TRUE, v |-> defaults]
    ELSE [err |-> FALSE, v |-> [defaults EXCEPT !.duration = 1]]

\* http.Error(w, "Invalid JSON body", http.StatusBadRequest); return
BadRequest(r, ep) ==
    /\ Arrives(r)
    /\ endpoint' = [endpoint EXCEPT ![r] = ep]
    /\ resp' = [resp EXCEPT ![r] =
            [code |-> 400, key |-> "", body |-> NoParams]]
    /\ pc' = [pc EXCEPT ![r] = "responded"]
    /\ UNCHANGED <<now, alive, params, reqCtxDone, cpuVars, memVars, logVars,
                   killVars, delayVars, envVars>>

\* CPUHandler on POST, lines 113-165
CPUHandlerPost(r, body) ==
    LET d == Decode(body, [NoParams EXCEPT !.intensity = Medium,
                                           !.duration = 60])
    IN  IF d.err THEN BadRequest(r, "cpu")
        ELSE CPUHandlerKey(r, d.v.intensity, d.v.duration)

\* MemoryHandler on POST, lines 27-73
MemoryHandlerPost(r, body) ==
    LET d == Decode(body, [NoParams EXCEPT !.size = 100, !.duration = 60])
    IN  IF d.err THEN BadRequest(r, "memory")
        ELSE MemoryHandlerKey(r, d.v.size, d.v.duration)

\* LogHandler on POST, lines 530-670
LogHandlerPost(r, body) ==
    LET d == Decode(body, NoParams)
    IN  IF d.err THEN BadRequest(r, "log")
        ELSE LogHandlerStart(r, d.v.interval, d.v.duration)

\* KillHandler on POST, lines 23-74
KillHandlerPost(r, body) ==
    LET d == Decode(body, NoParams)
    IN  IF d.err THEN BadRequest(r, "kill")
        ELSE KillHandlerRespond(r, d.v.delay, d.v.code)

\* the server receiving POST requests on its job-starting endpoints
NextPost ==
    \/ \E r \in Requests, b \in PostBodies : CPUHandlerPost(r, b)
    \/ \E r \in Requests, b \in PostBodies : MemoryHandlerPost(r, b)
    \/ \E r \in Requests, b \in PostBodies : LogHandlerPost(r, b)
    \/ \E r \in Requests, b \in PostBodies : KillHandlerPost(r, b)
    \/ \E r \in Requests : CPUHandlerRegister(r)
    \/ \E r \in Requests : CPUHandlerRespond(r)
    \/ \E r \in Requests, w \in WorkerIDs : WorkerSelect(r, w)
    \/ \E r \in Requests, w \in WorkerIDs : WorkerWork(r, w)
    \/ \E r \in Requests, w \in WorkerIDs : WorkerSleep(r, w)
    \/ \E r \in Requests : CPUTimeout(r)
    \/ \E r \in Requests : MemoryHandlerAllocate(r)
    \/ \E r \in Requests : MemoryHandlerRespond(r)
    \/ \E r \in Requests : MemoryTimeout(r)
    \/ \E r \in Requests : LogHandlerRespond(r)
    \/ \E r \in Requests : LogGoStart(r)
    \/ \E r \in Requests : KillHandlerSchedule(r)
    \/ \E r \in Requests : KillGoStart(r)
    \/ \E r \in Requests : KillTerminate(r)
    \/ CommonNext

SpecPost == Init /\ [][NextPost]_vars

\* the goroutines running in the background and the terminations scheduled
Background == <<workerPc, cpuTimer, memTimer, logPc, ticker, durationTimer,
                killPc, killTimer>>

\* C14: when a POST to /cpu, /memory, /log or /kill carries a body that
\* the handler's JSON decoder rejects (an empty body, or one whose first
\* value is malformed), the handler's step writes a 400 response and leaves
\* the CPU registry, the job counter, the memory-block map, the log output
\* and every background goroutine and scheduled termination as they were;
\* no later step of that request changes them either.
C14_Rejected(body) == body = <<>> \/ ~WellFormedJSON(Head(body))

C14_Step ==
    /\ \A r \in Requests, body \in PostBodies :
        (/\ C14_Rejected(body)
         /\ \/ CPUHandlerPost(r, body)
            \/ MemoryHandlerPost(r, body)
            \/ LogHandlerPost(r, body)
            \/ KillHandlerPost(r, body))
        => /\ resp'[r].code = 400
           /\ pc'[r] = "responded"
           /\ UNCHANGED <<jobCounter, cpuJobs, memoryBlocks, logEntries,
                          Background, alive, exitCode>>
    /\ \A r \in Requests :
        (resp[r].code = 400 /\ pc[r] # pc'[r])
        => /\ pc[r] = "responded" /\ pc'[r] = "done"
           /\ UNCHANGED <<jobCounter, cpuJobs, memoryBlocks, logEntries,
                          Background, alive, exitCode, resp>>

C15_WorkloadStartNeverFails ==
    \A r \in Requests : resp[r].code # 500

\* ------------------------------------------------------ /delay, /respond
\* DelayHandler / RespondHandler validation of duration and status code
ValidateDelayDuration(d) == IF d < 0 \/ d > 300 THEN 0 ELSE d
ValidateStatusCode_UpTo600(c) == IF c < 100 \/ c > 600 THEN 200 ELSE c
ValidateStatusCode(c) == IF c < 100 \/ c > 599 THEN 200 ELSE c

\* `if params.Duration > 0 { time.Sleep(params.Duration seconds) }`
DelaySleep_None(duration) == 0
DelaySleep(duration) == IF duration > 0 THEN duration ELSE 0

\* DelayHandler, lines 20-66: parse, validate, sleep
DelayHandlerStart(r, duration, code) ==
    /\ Arrives(r)
    /\ endpoint' = [endpoint EXCEPT ![r] = "delay"]
    /\ params' = [params EXCEPT ![r] =
            [NoParams EXCEPT !.duration = ValidateDelayDuration(duration),
                             !.code = ValidateStatusCode(code)]]
    /\ delayTimer' = [delayTimer EXCEPT ![r] =
            DelaySleep(ValidateDelayDuration(duration))]
    /\ pc' = [pc EXCEPT ![r] = "sleeping"]
    /\ UNCHANGED <<now, alive, resp, reqCtxDone, cpuVars, memVars, logVars,
                   killVars, delayWaited, envVars>>

\* DelayHandler, lines 68-82: status line and body are written
DelayHandlerRespond(r) ==
    /\ alive /\ pc[r] = "sleeping" /\ endpoint[r] = "delay"
    /\ delayTimer[r] = 0
    /\ delayTimer' = [delayTimer EXCEPT ![r] = -2]
    /\ resp' = [resp EXCEPT ![r] =
            [code |-> params[r].code, key |-> "", body |-> params[r]]]
    /\ pc' = [pc EXCEPT ![r] = "responded"]
    /\ UNCHANGED <<now, alive, endpoint, params, reqCtxDone, cpuVars, memVars,
                   logVars, killVars, delayWaited, envVars>>

\* RespondHandler, lines 305-352: parse, validate, sleep
RespondHandlerStart(r, duration, code) ==
    /\ Arrives(r)
    /\ endpoint' = [endpoint EXCEPT ![r] = "respond"]
    /\ params' = [params EXCEPT ![r] =
            [NoParams EXCEPT !.duration = ValidateDelayDuration(duration),
                             !.code = ValidateStatusCode(code)]]
    /\ delayTimer' = [delayTimer EXCEPT ![r] =
            DelaySleep(ValidateDelayDuration(duration))]
    /\ pc' = [pc EXCEPT ![r] = "sleeping"]
    /\ UNCHANGED <<now, alive, resp, reqCtxDone, cpuVars, memVars, logVars,
                   killVars, delayWaited, envVars>>

\* RespondHandler, lines 354-389: headers, status line and body are
\* written; the body gives duration and code as decimal strings
RespondHandlerRespond(r) ==
    /\ alive /\ pc[r] = "sleeping" /\ endpoint[r] = "respond"
    /\ delayTimer[r] = 0
    /\ delayTimer' = [delayTimer EXCEPT ![r] = -2]
    /\ resp' = [resp EXCEPT ![r] =
            [code |-> params[r].code, key |-> "",
             body |-> [params[r] EXCEPT !.duration = ToString(@),
                                        !.code = ToString(@)]]]
    /\ pc' = [pc EXCEPT ![r] = "responded"]
    /\ UNCHANGED <<now, alive, endpoint, params, reqCtxDone, cpuVars, memVars,
                   logVars, killVars, delayWaited, envVars>>

IsDelay(r) == endpoint[r] \in {"delay", "respond"}

\* ------------------------------------------------- out-of-range values
\* for every numeric parameter: a value below its range, one inside, one above
DurationRange == {-1, 1, 3601}
SizeRange == {0, 10, 8193}
IntervalRange == {-1, 1, 3601}
LogDurationRange == {-1, 1, 86401}
KillDelayRange == {-1, 1, 3601}
ExitCodeRange == {-1, 3, 256}
DelayDurationRange == {-1, 1, 301}
StatusCodeRange == {99, 201, 600}

\* the requests issued with such values: the first
RangeRequests == {1}

\* the server answering one request whose parameters may be out of range
NextRange ==
    \/ \E r \in RangeRequests, d \in DurationRange :
            CPUHandlerKey(r, Medium, d)
    \/ \E r \in RangeRequests, z \in SizeRange, d \in DurationRange :
            MemoryHandlerKey(r, z, d)
    \/ \E r \in RangeRequests, i \in IntervalRange, d \in LogDurationRange :
            LogHandlerStart(r, i, d)
    \/ \E r \in RangeRequests, d \in KillDelayRange, c \in ExitCodeRange :
            KillHandlerRespond(r, d, c)
    \/ \E r \in RangeRequests, d \in DelayDurationRange,
          c \in StatusCodeRange : DelayHandlerStart(r, d, c)
    \/ \E r \in RangeRequests, d \in DelayDurationRange,
          c \in StatusCodeRange : RespondHandlerStart(r, d, c)
    \/ \E r \in Requests : CPUHandlerRegister(r)
    \/ \E r \in Requests : CPUHandlerRespond(r)
    \/ \E r \in Requests, w \in WorkerIDs : WorkerSelect(r, w)
    \/ \E r \in Requests, w \in WorkerIDs : WorkerWork(r, w)
    \/ \E r \in Requests, w \in WorkerIDs : WorkerSleep(r, w)
    \/ \E r \in Requests : CPUTimeout(r)
    \/ \E r \in Requests : MemoryHandlerAllocate(r)
    \/ \E r \in Requests : MemoryHandlerRespond(r)
    \/ \E r \in Requests : MemoryTimeout(r)
    \/ \E r \in Requests : LogHandlerRespond(r)
    \/ \E r \in Requests : LogGoStart(r)
    \/ \E r \in Requests : LogTick(r)
    \/ \E r \in Requests : LogExpire(r)
    \/ \E r \in Requests : LogNilTimerPanic(r)
    \/ \E r \in Requests : KillHandlerSchedule(r)
    \/ \E r \in Requests : KillGoStart(r)
    \/ \E r \in Requests : KillTerminate(r)
    \/ \E r \in Requests : DelayHandlerRespond(r)
    \/ \E r \in Requests : RespondHandlerRespond(r)
    \/ CommonNext

SpecRange == Init /\ [][NextRange]_vars

\* C16: whatever numeric value a request carries, the handler goes on with
\* a value of the documented range: a value inside the range is kept, one
\* outside it is replaced by the endpoint's default (delay/respond duration
\* 0, status code 200, cpu and memory duration 60, memory size 100, kill
\* delay 0, exit code 0, log interval 0, log duration 0).  The timers and
\* the allocation are set up from the effective values, the response echoes
\* them, and its status is 200 (for /delay and /respond: the effective
\* status code), never an error raised for the value.
C16_Within(v, lo, hi, default) == IF v >= lo /\ v <= hi THEN v ELSE default

C16_Bytes(blocks) ==
    LET sum[i \in 0..Len(blocks)] ==
            IF i = 0 THEN 0 ELSE sum[i - 1] + blocks[i].len
    IN  sum[Len(blocks)]

C16_State ==
    \A r \in Requests :
        /\ IsCPU(r)
            => /\ params[r].duration \in 0..3600
               /\ cpuTimer[r] \in -2..params[r].duration
               /\ resp[r].code # 0
                    => /\ resp[r].code = 200
                       /\ resp[r].body.duration = params[r].duration
        /\ IsMemory(r)
            => /\ params[r].duration \in 0..3600
               /\ params[r].size \in 1..8192
               /\ memTimer[r] \in -2..params[r].duration
               /\ pc[r] = "memAllocated"
                    => C16_Bytes(memoryBlocks[allocKey[r]])
                            = params[r].size * 1024 * 1024
               /\ resp[r].code # 0
                    => /\ resp[r].code = 200
                       /\ resp[r].body.duration = ToString(params[r].duration)
                       /\ resp[r].body.size = ToString(params[r].size)
        /\ IsLog(r)
            => /\ params[r].interval \in 0..3600
               /\ params[r].duration \in 0..86400
               /\ resp[r].code # 0
                    => /\ resp[r].code = 200
                       /\ resp[r].body.interval = params[r].interval
                       /\ resp[r].body.duration = params[r].duration
        /\ IsKill(r)
            => /\ params[r].delay \in 0..3600
               /\ params[r].code \in 0..255
               /\ killTimer[r] \in -2..params[r].delay
               /\ exitCode \in {-1, params[r].code}
               /\ resp[r].code = 200
               /\ resp[r].body.delay = params[r].delay
               /\ resp[r].body.code = params[r].code
        /\ IsDelay(r)
            => /\ params[r].duration \in 0..300
               /\ params[r].code \in 100..599
               /\ delayTimer[r] \in -2..params[r].duration
               /\ resp[r].code # 0 => resp[r].code = params[r].code
        /\ (endpoint[r] = "delay" /\ resp[r].code # 0)
            => /\ resp[r].body.duration = params[r].duration
               /\ resp[r].body.code = params[r].code
        /\ (endpoint[r] = "respond" /\ resp[r].code # 0)
            => /\ resp[r].body.duration = ToString(params[r].duration)
               /\ resp[r].body.code = ToString(params[r].code)

C16_Step ==
    /\ C16_State'
    /\ \A r \in Requests :
        /\ \A d \in DurationRange :
            CPUHandlerKey(r, Medium, d)
                => params'[r].duration = C16_Within(d, 0, 3600, 60)
        /\ \A z \in SizeRange, d \in DurationRange :
            MemoryHandlerKey(r, z, d)
                => /\ params'[r].size = C16_Within(z, 1, 8192, 100)
                   /\ params'[r].duration = C16_Within(d, 0, 3600, 60)
        /\ \A i \in IntervalRange, d \in LogDurationRange :
            LogHandlerStart(r, i, d)
                => /\ params'[r].interval = C16_Within(i, 0, 3600, 0)
                   /\ params'[r].duration = C16_Within(d, 0, 86400, 0)
        /\ \A d \in KillDelayRange, c \in ExitCodeRange :
            KillHandlerRespond(r, d, c)
                => /\ params'[r].delay = C16_Within(d, 0, 3600, 0)
                   /\ params'[r].code = C16_Within(c, 0, 255, 0)
        /\ \A d \in DelayDurationRange, c \in StatusCodeRange :
            (DelayHandlerStart(r, d, c) \/ RespondHandlerStart(r, d, c))
                => /\ params'[r].duration = C16_Within(d, 0, 300, 0)
                   /\ params'[r].code = C16_Within(c, 100, 599, 200)

IntensityStrings ==
    {"light", "heavy", "extreme", "LIGHT", "Medium", "turbo", ""}

\* the server answering one /cpu request with any of these strings
NextIntensity ==
    \/ \E r \in RangeRequests, i \in IntensityStrings, d \in Durations :
            CPUHandlerKey(r, i, d)
    \/ \E r \in Requests : CPUHandlerRegister(r)
    \/ \E r \in Requests : CPUHandlerRespond(r)
    \/ \E r \in Requests, w \in WorkerIDs : WorkerSelect(r, w)
    \/ \E r \in Requests, w \in WorkerIDs : WorkerWork(r, w)
    \/ \E r \in Requests, w \in WorkerIDs : WorkerSleep(r, w)
    \/ \E r \in Requests : CPUTimeout(r)
    \/ \E k \in StopKeys : ExplicitStop(k)
    \/ CommonNext

SpecIntensity == Init /\ [][NextIntensity]_vars

\* C17: a /cpu request whose intensity string is not exactly light, medium,
\* heavy or extreme (LIGHT, Medium, turbo, the empty string) is served with
\* the medium level: the handler goes on with intensity "medium", the level
\* does not change afterwards, the job's workers follow the medium
\* configuration (a burst, then a pause, since medium's SleepDuration is
\* not 0), and the 200 response gives "medium" as intensity.  A string that
\* is a level is kept as it is.
C17_Levels == {"light", "medium", "heavy", "extreme"}

C17_Step ==
    \A r \in Requests :
        /\ \A s \in IntensityStrings, d \in Durations :
            CPUHandlerKey(r, s, d)
                => /\ s \notin C17_Levels
                        => /\ params'[r].intensity = "medium"
                           /\ GetIntensityConfig(params'[r].intensity)
                                = [WorkSize |-> 15000, WorkDuration |-> 250,
                                   SleepDuration |-> 250]
                   /\ s \in C17_Levels => params'[r].intensity = s
        /\ IsCPU(r)
            => /\ params'[r] = params[r]
               /\ params[r].intensity \in C17_Levels
        /\ (IsCPU(r) /\ resp[r].code = 0 /\ resp'[r].code # 0)
            => /\ resp'[r].code = 200
               /\ resp'[r].body.intensity = params[r].intensity
        /\ \A w \in WorkerIDs :
            (IsCPU(r) /\ params[r].intensity = "medium"
                /\ workerPc[r][w] = "work" /\ workerPc'[r][w] # "work")
                => workerPc'[r][w] = "sleep"

C17_UnknownIntensityIsMedium == [][C17_Step]_vars

C17_Witness ==
    \E r \in Requests :
        /\ IsCPU(r) /\ params[r].intensity = "medium"
        /\ resp[r].code = 200 /\ resp[r].body.intensity = "medium"
        /\ \E w \in WorkerIDs : workerPc[r][w] = "sleep"

\* ------------------------------------------- /delay and /respond requests
DelayDurations == 0..MaxWaited
StatusCodes == {201, 404}

DelayStep(r) ==
    DelayHandlerRespond(r) \/ RespondHandlerRespond(r) \/ HandlerReturn(r)

\* the steps of /delay and /respond requests
DelayNext ==
    \/ \E r \in Requests, d \in DelayDurations, c \in StatusCodes :
            DelayHandlerStart(r, d, c)
    \/ \E r \in Requests, d \in DelayDurations, c \in StatusCodes :
            RespondHandlerStart(r, d, c)
    \/ \E r \in Requests : DelayHandlerRespond(r)
    \/ \E r \in Requests : RespondHandlerRespond(r)

\* the server receiving /delay, /respond and /memory requests
NextDelay == DelayNext \/ MemoryNext \/ CommonNext

DelayFairness ==
    /\ WF_vars(Tick)
    /\ \A r \in Requests : WF_vars(DelayStep(r))
    /\ \A r \in Requests : WF_vars(MemoryHandlerStep(r))

FairSpecDelay == Init /\ [][NextDelay]_vars /\ DelayFairness

\* C18: a /delay or /respond handler writes nothing of its response while
\* it sleeps; it writes the response only when the validated duration has
\* passed in full (at once when the duration is 0), with the validated
\* status code; none of its steps starts a goroutine, schedules a
\* termination or changes the CPU registry, the job counter, the allocation
\* map or the log output; and every such request is eventually answered.
C18_Step ==
    \A r \in Requests :
        /\ (IsDelay(r) /\ pc[r] = "sleeping") => resp[r].code = 0
        /\ (pc[r] = "idle" /\ IsDelay(r)')
            => /\ pc'[r] = "sleeping" /\ resp'[r].code = 0
               /\ delayTimer'[r] = params'[r].duration
               /\ delayWaited'[r] = 0
        /\ (IsDelay(r) /\ pc[r] = "sleeping" /\ pc'[r] # "sleeping")
            => /\ pc'[r] = "responded"
               /\ delayWaited[r] >= params[r].duration
               /\ resp'[r].code = params[r].code
               /\ params[r].code \in 100..599
               /\ params[r].duration \in 0..300
        /\ (IsDelay(r)' /\ pc[r] # pc'[r])
            => UNCHANGED <<cpuVars, memVars, logVars, killVars, alive, now>>

C18_DelayBlocksThenResponds ==
    /\ [][C18_Step]_vars
    /\ \A r \in Requests : IsDelay(r) ~> (IsDelay(r) /\ Responded(r))

C18_Witness ==
    \E r, o \in Requests :
        /\ r # o
        /\ endpoint[r] = "delay" /\ params[r].duration = MaxWaited
        /\ pc[r] = "done" /\ resp[r].code = 404
        /\ delayWaited[r] = MaxWaited
        /\ endpoint[o] = "respond" /\ params[o].duration = 0
        /\ resp[o].code = 201 /\ delayWaited[o] = 0

\* C19: two /memory requests never have the same allocation key, also when
\* they ask for the same size within the same second; so while both
\* allocations are held, memoryBlocks has an entry for each, holding the
\* blocks that request built.
C19_AllocationKeysUnique ==
    \A r, o \in Requests :
        (r # o /\ IsMemory(r) /\ IsMemory(o))
        => /\ allocKey[r] # allocKey[o]
           /\ (pc[r] \in {"memAllocated", "responded", "done"}
                    /\ memTimer[r] # -2)
                => /\ allocKey[r] \in DOMAIN memoryBlocks
                   /\ \A i \in 1..Len(memoryBlocks[allocKey[r]]) :
                        memoryBlocks[allocKey[r]][i].by = r

\* ------------------------------------------------------ /memory requests
\* GetMemoryStats()["active_allocations"]: key -> size in MB of its blocks
activeAllocations ==
    [key \in DOMAIN memoryBlocks |->
        LET blocks == memoryBlocks[key]
            sum[i \in 0..Len(blocks)] ==
                IF i = 0 THEN 0 ELSE sum[i - 1] + blocks[i].len
        IN  (sum[Len(blocks)] \div 1024) \div 1024]

\* the server receiving /memory requests only
NextMemory == MemoryNext \/ CommonNext

SpecMemory == Init /\ [][NextMemory]_vars

\* C20: whatever the interleaving of the allocateMemory and deallocateMemory
\* calls of different requests, a request whose key no other request has
\* finds its key among the active allocations exactly from its
\* allocateMemory call until its own deallocateMemory call, and while it is
\* there the entry holds the blocks that request built, none larger than a
\* chunk, adding up to the size it asked for; the active allocations are
\* never more than the keys of the requests made.
C20_Unshared(r) ==
    \A o \in Requests \ {r} : IsMemory(o) => allocKey[o] # allocKey[r]

C20_Held(r) ==
    /\ pc[r] \in {"memAllocated", "responded", "done"}
    /\ memTimer[r] # -2

C20_DistinctKeysDoNotInterfere ==
    /\ \A r \in Requests :
        (IsMemory(r) /\ C20_Unshared(r))
        => /\ allocKey[r] \in DOMAIN memoryBlocks <=> C20_Held(r)
           /\ C20_Held(r)
                => /\ activeAllocations[allocKey[r]] = params[r].size
                   /\ \A i \in 1..Len(memoryBlocks[allocKey[r]]) :
                        /\ memoryBlocks[allocKey[r]][i].by = r
                        /\ memoryBlocks[allocKey[r]][i].len \in 1..ChunkSize
    /\ DOMAIN memoryBlocks \subseteq
            {allocKey[r] : r \in {q \in Requests : IsMemory(q)}}

C20_Witness ==
    \E r, o \in Requests :
        /\ IsMemory(r) /\ IsMemory(o) /\ allocKey[r] # allocKey[o]
        /\ memTimer[o] = -2 /\ C20_Held(r) /\ pc[r] = "done"
        /\ DOMAIN memoryBlocks = {allocKey[r]}
        /\ activeAllocations[allocKey[r]] = 25

\* ------------------------------------------------------- authentication
\* the values of the `token` query parameter and of the X-Auth-Token header
\* ("": not given), and the token the server may be configured with
Secret == "secret"
TokenInputs == {"", Secret, "wrong"}

\* server.New(cfg): the configuration is read once, before any request
LoadConfig(token) ==
    /\ alive /\ authToken = "" /\ token # ""
    /\ \A r \in Requests : pc[r] = "idle"
    /\ authToken' = token
    /\ UNCHANGED <<now, alive, reqVars, cpuVars, memVars, logVars, killVars,
                   delayVars, cpuMutex, memoryMutex, building, cpuStats,
                   memStats>>

\* TokenAuthMiddleware's providedToken: the query parameter when it is not
\* empty, else the header
providedToken_HeaderFirst(tokenParam, authHeader) ==
    IF authHeader # "" THEN authHeader ELSE tokenParam
providedToken(tokenParam, authHeader) ==
    IF tokenParam # "" THEN tokenParam
    ELSE IF authHeader # "" THEN authHeader
    ELSE ""

\* TokenAuthMiddleware: TRUE when it calls next.ServeHTTP
TokenAuthMiddleware(tokenParam, authHeader) ==
    IF authToken = "" THEN TRUE
    ELSE IF providedToken(tokenParam, authHeader) = "" THEN FALSE
    ELSE IF providedToken(tokenParam, authHeader) # authToken THEN FALSE
    ELSE TRUE

\* http.Error(w, "Unauthorized: ...", http.StatusUnauthorized)
Unauthorized(r, ep) ==
    /\ Arrives(r)
    /\ endpoint' = [endpoint EXCEPT ![r] = ep]
    /\ resp' = [resp EXCEPT ![r] =
            [code |-> 401, key |-> "", body |-> NoParams]]
    /\ pc' = [pc EXCEPT ![r] = "responded"]
    /\ UNCHANGED <<now, alive, params, reqCtxDone, cpuVars, memVars, logVars,
                   killVars, delayVars, envVars>>

\* setupRoutes: the routes /respond, /log, /memory and /cpu, each behind
\* TokenAuthMiddleware
RouteRespond(r, tokenParam, authHeader, duration, code) ==
    IF TokenAuthMiddleware(tokenParam, authHeader)
    THEN RespondHandlerStart(r, duration, code)
    ELSE Unauthorized(r, "respond")

RouteLog(r, tokenParam, authHeader, interval, d) ==
    IF TokenAuthMiddleware(tokenParam, authHeader)
    THEN LogHandlerStart(r, interval, d)
    ELSE Unauthorized(r, "log")

RouteMemory(r, tokenParam, authHeader, size, d) ==
    IF TokenAuthMiddleware(tokenParam, authHeader)
    THEN MemoryHandlerKey(r, size, d)
    ELSE Unauthorized(r, "memory")

RouteCPU(r, tokenParam, authHeader, intensityStr, d) ==
    IF TokenAuthMiddleware(tokenParam, authHeader)
    THEN CPUHandlerKey(r, intensityStr, d)
    ELSE Unauthorized(r, "cpu")

\* the server behind its authentication middleware
NextAuth ==
    \/ LoadConfig(Secret)
    \/ \E r \in Requests, q, h \in TokenInputs : RouteRespond(r, q, h, 0, 201)
    \/ \E r \in Requests, q, h \in TokenInputs : RouteLog(r, q, h, 0, 0)
    \/ \E r \in Requests, q, h \in TokenInputs : RouteMemory(r, q, h, 10, 1)
    \/ \E r \in Requests, q, h \in TokenInputs :
            RouteCPU(r, q, h, "light", 1)
    \/ \E r \in Requests : RespondHandlerRespond(r)
    \/ \E r \in Requests : LogHandlerRespond(r)
    \/ \E r \in Requests : MemoryHandlerAllocate(r)
    \/ \E r \in Requests : MemoryHandlerRespond(r)
    \/ \E r \in Requests : MemoryTimeout(r)
    \/ \E r \in Requests : CPUHandlerRegister(r)
    \/ \E r \in Requests : CPUHandlerRespond(r)
    \/ \E r \in Requests, w \in WorkerIDs : WorkerSelect(r, w)
    \/ \E r \in Requests, w \in WorkerIDs : WorkerWork(r, w)
    \/ \E r \in Requests, w \in WorkerIDs : WorkerSleep(r, w)
    \/ \E r \in Requests : CPUTimeout(r)
    \/ CommonNext

SpecAuth == Init /\ [][NextAuth]_vars

\* C21: with a token configured, a request to /respond, /log, /memory or
\* /cpu is handed to its handler only when the token it supplies (the
\* `token` query parameter if that is not empty, else the X-Auth-Token
\* header) equals the configured one; any other request is answered 401 and
\* neither its own step nor any later step of it starts a job, allocates,
\* logs or sleeps.  With no token configured every request is handed on.
C21_Supplied(q, h) == IF q # "" THEN q ELSE h

C21_Passes(q, h) == authToken = "" \/ C21_Supplied(q, h) = authToken

C21_Routed(r, q, h) ==
    \/ RouteRespond(r, q, h, 0, 201)
    \/ RouteLog(r, q, h, 0, 0)
    \/ RouteMemory(r, q, h, 10, 1)
    \/ RouteCPU(r, q, h, "light", 1)

C21_Step ==
    /\ \A r \in Requests, q, h \in TokenInputs :
        C21_Routed(r, q, h)
        => IF C21_Passes(q, h)
           THEN /\ resp'[r].code # 401
                /\ pc'[r] \notin {"idle", "done"}
                /\ <<params[r], jobCounter, delayTimer[r], logEntries[r]>>' #
                   <<params[r], jobCounter, delayTimer[r], logEntries[r]>>
           ELSE /\ resp'[r].code = 401
                /\ pc'[r] = "responded"
                /\ UNCHANGED <<params, cpuVars, memVars, logVars, killVars,
                               delayVars, alive>>
    /\ \A r \in Requests :
        (resp[r].code = 401 /\ pc[r] # pc'[r])
        => /\ pc[r] = "responded" /\ pc'[r] = "done"
           /\ UNCHANGED <<resp[r], params[r], jobKey[r], allocKey[r],
                          logEntries[r], logPc[r], delayTimer[r],
                          workerPc[r], cpuTimer[r], memTimer[r]>>

MessageInputs ==
    {"", CustomMessage, "Already fake (Fake message)", "(Fake message)",
     "glued(Fake message)", "(Fake message) trailing",
     "Already fake (Fake message) "}
LogSizeInputs == {"", "medium", "Long", "huge"}

\* one /log request with any message and size, logging once or repeatedly
NextMessage ==
    \/ \E r \in RangeRequests, m \in MessageInputs, s \in LogSizeInputs,
          i \in IntervalInputs, d \in Durations :
            LogHandler(r, "info", s, m, i, d)
    \/ \E r \in Requests : LogHandlerRespond(r)
    \/ \E r \in Requests : LogGoStart(r)
    \/ \E r \in Requests : LogTick(r)
    \/ \E r \in Requests : LogExpire(r)
    \/ \E r \in Requests : LogNilTimerPanic(r)
    \/ CommonNext

SpecMessage == Init /\ [][NextMessage]_vars

\* C22: the message of every log entry, and the message of the response,
\* ends with "(Fake message)"; when the request carries a custom message
\* that already ends with the marker the message is that custom message
\* unchanged, when it carries one that does not the message is the custom
\* message followed by " (Fake message)" once; and getActualMessage maps the
\* message it returned to itself.
C22_EndsWithMarker(s) ==
    \E n \in 0..Len(s) : s = SubSeq(s, 1, n) \o "(Fake message)"

C22_Output(r) ==
    {logEntries[r][i].message : i \in DOMAIN logEntries[r]} \cup
    (IF resp[r].code = 200 THEN {resp[r].body.message} ELSE {})

C22_FakeMarkerAppendedOnce ==
    \A r \in Requests : \A out \in C22_Output(r) :
        LET m == params[r].message
        IN  /\ C22_EndsWithMarker(out)
            /\ (m # "" /\ C22_EndsWithMarker(m)) => out = m
            /\ (m # "" /\ ~C22_EndsWithMarker(m))
                    => out = m \o " " \o "(Fake message)"
            /\ getActualMessage(out, params[r].logSize) = {out}

C22_Witness ==
    \E r \in Requests :
        /\ params[r].message = "(Fake message) trailing"
        /\ Len(logEntries[r]) >= 2
        /\ logEntries[r][2].message =
                "(Fake message) trailing (Fake message)"
        /\ resp[r].code = 200

\* ------------------------------------------------------------ the locks
\* the goroutines that take cpuMutex or memoryMutex: the handler of
\* request r, and the timeout / deallocation goroutine it started
Handler(r) == <<"handler", r>>
Timer(r) == <<"timer", r>>

\* CPUHandler, lines 161-162: cpuMutex.Lock() before jobCounter++
CPUHandlerLockKey(r, intensityStr, d) ==
    /\ Arrives(r)
    /\ cpuMutex = Unlocked
    /\ cpuMutex' = Handler(r)
    /\ endpoint' = [endpoint EXCEPT ![r] = "cpu"]
    /\ params' = [params EXCEPT ![r] =
            [NoParams EXCEPT !.intensity = EffectiveIntensity(intensityStr),
                             !.duration = ValidateDuration(d)]]
    /\ pc' = [pc EXCEPT ![r] = "cpuKeyLocking"]
    /\ UNCHANGED <<now, alive, resp, reqCtxDone, cpuVars, memVars, logVars,
                   killVars, delayVars, authToken, memoryMutex, building,
                   cpuStats, memStats>>

\* CPUHandler, lines 162-165: jobCounter++, the key, cpuMutex.Unlock()
CPUHandlerUnlockKey(r) ==
    /\ alive /\ pc[r] = "cpuKeyLocking" /\ cpuMutex = Handler(r)
    /\ jobCounter' = jobCounter + 1
    /\ jobKey' = [jobKey EXCEPT ![r] = JobKeyFmt(jobCounter + 1, now)]
    /\ cpuMutex' = Unlocked
    /\ pc' = [pc EXCEPT ![r] = "cpuKeyed"]
    /\ UNCHANGED <<now, alive, endpoint, params, resp, reqCtxDone, cpuJobs,
                   cancelCalls, deletes, stoppedBy, workerPc, cpuTimer,
                   memVars, logVars, killVars, delayVars, authToken,
                   memoryMutex, building, cpuStats, memStats>>

\* CPUHandler, lines 168-169: context.WithCancel, cpuMutex.Lock()
CPUHandlerLockRegister(r) ==
    /\ alive /\ pc[r] = "cpuKeyed"
    /\ cpuMutex = Unlocked
    /\ cpuMutex' = Handler(r)
    /\ pc' = [pc EXCEPT ![r] = "cpuRegLocking"]
    /\ UNCHANGED <<now, alive, endpoint, params, resp, reqCtxDone, cpuVars,
                   memVars, logVars, killVars, delayVars, authToken,
                   memoryMutex, building, cpuStats, memStats>>

\* CPUHandler, lines 170-171: cpuJobs[jobKey] = jobCancel, Unlock()
CPUHandlerUnlockRegister(r) ==
    /\ alive /\ pc[r] = "cpuRegLocking" /\ cpuMutex = Handler(r)
    /\ cpuJobs' = MapSet(cpuJobs, jobKey[r], r)
    /\ cpuMutex' = Unlocked
    /\ pc' = [pc EXCEPT ![r] = "cpuRegistered"]
    /\ UNCHANGED <<now, alive, endpoint, params, resp, reqCtxDone, jobCounter,
                   jobKey, cancelCalls, deletes, stoppedBy, workerPc,
                   cpuTimer, memVars, logVars, killVars, delayVars, authToken,
                   memoryMutex, building, cpuStats, memStats>>

\* stopCPULoad, line 285, called by the timeout goroutine once its sleep
\* is over: cpuMutex.Lock()
CPUTimeoutLock(r) ==
    /\ alive /\ cpuTimer[r] = 0
    /\ cpuMutex = Unlocked
    /\ cpuMutex' = Timer(r)
    /\ UNCHANGED <<now, alive, reqVars, cpuVars, memVars, logVars, killVars,
                   delayVars, authToken, memoryMutex, building, cpuStats,
                   memStats>>

\* stopCPULoad, lines 286-293: cancel, delete, the deferred Unlock()
CPUTimeoutUnlock(r) ==
    /\ alive /\ cpuTimer[r] = 0 /\ cpuMutex = Timer(r)
    /\ stopCPULoad(jobKey[r], "timeout")
    /\ cpuTimer' = [cpuTimer EXCEPT ![r] = -2]
    /\ cpuMutex' = Unlocked
    /\ UNCHANGED <<now, alive, reqVars, jobCounter, jobKey, workerPc, memVars,
                   logVars, killVars, delayVars, authToken, memoryMutex,
                   building, cpuStats, memStats>>

\* GetCPUStats: under cpuMutex.RLock() the keys of cpuJobs are copied
GetCPUStats_Counter ==
    /\ alive /\ cpuMutex = Unlocked
    /\ cpuStats' = [active_jobs |-> DOMAIN cpuJobs, total_jobs |-> jobCounter]
    /\ UNCHANGED <<now, alive, reqVars, cpuVars, memVars, logVars, killVars,
                   delayVars, authToken, cpuMutex, memoryMutex, building,
                   memStats>>
GetCPUStats ==
    /\ alive /\ cpuMutex = Unlocked
    /\ cpuStats' = [active_jobs |-> DOMAIN cpuJobs,
                    total_jobs |-> Cardinality(DOMAIN cpuJobs)]
    /\ UNCHANGED <<now, alive, reqVars, cpuVars, memVars, logVars, killVars,
                   delayVars, authToken, cpuMutex, memoryMutex, building,
                   memStats>>

\* allocateMemory, lines 118-127: memoryMutex.Lock(), defer Unlock(), the
\* empty slice `blocks`
allocateMemoryLock_AtStore(r) ==
    /\ alive /\ pc[r] = "memKeyed"
    /\ memoryMutex = Unlocked
    /\ building' = [building EXCEPT ![r] = <<>>]
    /\ pc' = [pc EXCEPT ![r] = "memFilling"]
    /\ UNCHANGED <<now, alive, endpoint, params, resp, reqCtxDone, cpuVars,
                   memVars, logVars, killVars, delayVars, authToken, cpuMutex,
                   memoryMutex, cpuStats, memStats>>
allocateMemoryLock(r) ==
    /\ alive /\ pc[r] = "memKeyed"
    /\ memoryMutex = Unlocked
    /\ memoryMutex' = Handler(r)
    /\ building' = [building EXCEPT ![r] = <<>>]
    /\ pc' = [pc EXCEPT ![r] = "memFilling"]
    /\ UNCHANGED <<now, alive, endpoint, params, resp, reqCtxDone, cpuVars,
                   memVars, logVars, killVars, delayVars, authToken, cpuMutex,
                   cpuStats, memStats>>

\* allocateMemory, lines 130-145: one block is made, filled and appended
allocateMemoryFill(r) ==
    /\ alive /\ pc[r] = "memFilling"
    /\ Len(building[r]) < Len(Blocks(params[r].size, r))
    /\ building' = [building EXCEPT ![r] =
            Append(@, Blocks(params[r].size, r)[Len(@) + 1])]
    /\ UNCHANGED <<now, alive, reqVars, cpuVars, memVars, logVars, killVars,
                   delayVars, authToken, cpuMutex, memoryMutex, cpuStats,
                   memStats>>

\* allocateMemory, lines 148-149: memoryBlocks[key] = blocks, return nil
\* (the deferred Unlock runs)
allocateMemoryStore(r) ==
    /\ alive /\ pc[r] = "memFilling"
    /\ Len(building[r]) = Len(Blocks(params[r].size, r))
    /\ memoryBlocks' = MapSet(memoryBlocks, allocKey[r], building[r])
    /\ memoryMutex' = Unlocked
    /\ building' = [building EXCEPT ![r] = <<>>]
    /\ pc' = [pc EXCEPT ![r] = "memAllocated"]
    /\ UNCHANGED <<now, alive, endpoint, params, resp, reqCtxDone, cpuVars,
                   allocKey, memTimer, logVars, killVars, delayVars,
                   authToken, cpuMutex, cpuStats, memStats>>

\* deallocateMemory, line 153, called by the deallocation goroutine once
\* its sleep is over: memoryMutex.Lock()
MemoryTimeoutLock(r) ==
    /\ alive /\ memTimer[r] = 0
    /\ memoryMutex = Unlocked
    /\ memoryMutex' = Timer(r)
    /\ UNCHANGED <<now, alive, reqVars, cpuVars, memVars, logVars, killVars,
                   delayVars, authToken, cpuMutex, building, cpuStats,
                   memStats>>

\* deallocateMemory, lines 154-164: delete, runtime.GC(), deferred Unlock()
MemoryTimeoutUnlock(r) ==
    /\ alive /\ memTimer[r] = 0 /\ memoryMutex = Timer(r)
    /\ deallocateMemory(allocKey[r])
    /\ memTimer' = [memTimer EXCEPT ![r] = -2]
    /\ memoryMutex' = Unlocked
    /\ UNCHANGED <<now, alive, reqVars, cpuVars, allocKey, logVars, killVars,
                   delayVars, authToken, cpuMutex, building, cpuStats,
                   memStats>>

\* sum of the lengths of a key's blocks
SumLen(bs) ==
    LET sum[i \in 0..Len(bs)] == IF i = 0 THEN 0 ELSE sum[i - 1] + bs[i].len
    IN  sum[Len(bs)]

\* GetMemoryStats, lines 168-195: under memoryMutex.RLock() the size in MB
\* of every key's blocks
GetMemoryStats ==
    /\ alive /\ memoryMutex = Unlocked
    /\ LET active == [key \in DOMAIN memoryBlocks |->
                        (SumLen(memoryBlocks[key]) \div 1024) \div 1024]
       IN  memStats' = [active_allocations |-> active,
                        total_allocated_mb |->
                            LET keys == DOMAIN active
                                tot[S \in SUBSET keys] ==
                                    IF S = {} THEN 0
                                    ELSE LET k == CHOOSE x \in S : TRUE
                                         IN  active[k] + tot[S \ {k}]
                            IN  tot[keys]]
    /\ UNCHANGED <<now, alive, reqVars, cpuVars, memVars, logVars, killVars,
                   delayVars, authToken, cpuMutex, memoryMutex, building,
                   cpuStats>>

\* the /cpu and /memory endpoints with every Lock and Unlock a step
NextLock ==
    \/ \E r \in Requests : CPUHandlerLockKey(r, "light", 1)
    \/ \E r \in Requests : CPUHandlerUnlockKey(r)
    \/ \E r \in Requests : CPUHandlerLockRegister(r)
    \/ \E r \in Requests : CPUHandlerUnlockRegister(r)
    \/ \E r \in Requests : CPUHandlerRespond(r)
    \/ \E r \in Requests, w \in WorkerIDs : WorkerSelect(r, w)
    \/ \E r \in Requests, w \in WorkerIDs : WorkerWork(r, w)
    \/ \E r \in Requests, w \in WorkerIDs : WorkerSleep(r, w)
    \/ \E r \in Requests : CPUTimeoutLock(r)
    \/ \E r \in Requests : CPUTimeoutUnlock(r)
    \/ \E r \in Requests, s \in SizeInputs : MemoryHandlerKey(r, s, 1)
    \/ \E r \in Requests : allocateMemoryLock(r)
    \/ \E r \in Requests : allocateMemoryFill(r)
    \/ \E r \in Requests : allocateMemoryStore(r)
    \/ \E r \in Requests : MemoryHandlerRespond(r)
    \/ \E r \in Requests : MemoryTimeoutLock(r)
    \/ \E r \in Requests : MemoryTimeoutUnlock(r)
    \/ GetMemoryStats
    \/ CommonNext

SpecLock == Init /\ [][NextLock]_vars

\* the goroutine g is inside job work: a handler making and filling the
\* blocks of its allocation, a timeout or deallocation goroutine asleep
C23_AtWork(g) ==
    \E r \in Requests :
        \/ g = Handler(r) /\ pc[r] = "memFilling"
        \/ g = Timer(r) /\ (cpuTimer[r] > 0 \/ memTimer[r] > 0)

C23_State ==
    /\ cpuMutex # Unlocked =>
        \E r \in Requests :
            \/ cpuMutex = Handler(r)
                    /\ pc[r] \in {"cpuKeyLocking", "cpuRegLocking"}
            \/ cpuMutex = Timer(r) /\ cpuTimer[r] = 0
    /\ \A r \in Requests :
            memoryMutex = Handler(r) <=> pc[r] = "memFilling"
    /\ \A r \in Requests : memoryMutex = Timer(r) => memTimer[r] = 0
    /\ memoryMutex \in {Unlocked} \cup {Handler(r) : r \in Requests}
                            \cup {Timer(r) : r \in Requests}

C23_Step ==
    \A r \in Requests :
        (pc[r] = "memFilling" /\ ~allocateMemoryStore(r))
        => UNCHANGED <<memoryBlocks, memStats, memoryMutex>>

C24_Step ==
    \A r \in Requests, w \in WorkerIDs :
        LET from == workerPc[r][w]
            to == workerPc'[r][w]
            sleeps == GetIntensityConfig(params[r].intensity).SleepDuration > 0
        IN  /\ cancelCalls'[r] # cancelCalls[r] => to = from
            /\ (to = "stopped" /\ from # "stopped")
                    => (from = "select" /\ JobCtxDone(r))
            /\ (JobCtxDone(r) /\ to # from)
                    => \/ from = "work" /\ to = (IF sleeps THEN "sleep"
                                                 ELSE "select")
                       \/ from = "sleep" /\ to = "select"
                       \/ from = "select" /\ to = "stopped"

C24_CancellationSeenAtLoopTop ==
    /\ [][C24_Step]_vars
    /\ \A r \in Requests :
            (Spawned(r) /\ JobCtxDone(r)) ~> AllStopped(r)

C24_Witness ==
    \E r \in Requests, v, w \in WorkerIDs :
        /\ JobCtxDone(r) /\ stoppedBy[r] = "timeout"
        /\ params[r].intensity = Medium
        /\ workerPc[r][v] = "sleep" /\ workerPc[r][w] = "stopped"

\* ------------------------------------------------------ the job runners
\* /cpu jobs with callers of stopCPULoad, /log jobs with an interval and
\* /memory allocations made block by block
NextRunner ==
    \/ \E r \in Requests : CPUHandlerKey(r, "extreme", 1)
    \/ \E r \in Requests : CPUHandlerRegister(r)
    \/ \E r \in Requests : CPUHandlerRespond(r)
    \/ \E r \in Requests, w \in WorkerIDs : WorkerSelect(r, w)
    \/ \E r \in Requests, w \in WorkerIDs : WorkerWork(r, w)
    \/ \E r \in Requests : CPUTimeout(r)
    \/ \E k \in StopKeys : ExplicitStop(k)
    \/ \E r \in Requests : LogHandlerStart(r, 1, 1)
    \/ \E r \in Requests : LogHandlerRespond(r)
    \/ \E r \in Requests : LogGoStart(r)
    \/ \E r \in Requests : LogTick(r)
    \/ \E r \in Requests : LogExpire(r)
    \/ \E r \in Requests : MemoryHandlerKey(r, 25, 1)
    \/ \E r \in Requests : allocateMemoryLock(r)
    \/ \E r \in Requests : allocateMemoryFill(r)
    \/ \E r \in Requests : allocateMemoryStore(r)
    \/ \E r \in Requests : MemoryHandlerRespond(r)
    \/ \E r \in Requests : MemoryTimeoutLock(r)
    \/ \E r \in Requests : MemoryTimeoutUnlock(r)
    \/ CommonNext

SpecRunner == Init /\ [][NextRunner]_vars

\* request r's job has an entry in a registry: its job key in cpuJobs or
\* its allocation key in memoryBlocks
C25_HasEntry(r) ==
    jobKey[r] \in DOMAIN cpuJobs \/ allocKey[r] \in DOMAIN memoryBlocks

\* the statement that no worker is in a burst, no log entry has been
\* written by a logging goroutine and no block has been made for a job that
\* has no registry entry
C25_NoWorkWithoutRegistryEntry ==
    \A r \in Requests :
        (\/ \E w \in WorkerIDs : workerPc[r][w] = "work"
         \/ \E i \in DOMAIN logEntries[r] : logEntries[r][i].by = "goroutine"
         \/ building[r] # <<>>)
        => C25_HasEntry(r)

\* C25: a /cpu job's key is generated and its cancel function registered
\* in cpuJobs before its workers are started (the entry may have been
\* removed again by then), and each of its bursts begins while the key is
\* registered (a burst may outlast the entry when the job is cancelled
\* meanwhile).  The other two runners register nothing before
\* they work: the steps of a /log job never touch a registry and its
\* requests have no key, and the blocks of a /memory allocation are all
\* made before its key is entered in memoryBlocks by the same step that
\* ends allocateMemory.
C25_Step ==
    \A r \in Requests :
        /\ \A w \in WorkerIDs :
            /\ (workerPc[r][w] = "unborn" /\ workerPc'[r][w] # "unborn")
                    => (jobKey[r] # "" /\ (Registered(r) \/ deletes[r] > 0))
            /\ (workerPc[r][w] # "work" /\ workerPc'[r][w] = "work")
                    => Registered(r)
        /\ (logEntries'[r] # logEntries[r] \/ logPc'[r] # logPc[r])
                => /\ UNCHANGED <<cpuJobs, memoryBlocks>>
                   /\ jobKey[r] = "" /\ allocKey[r] = ""
                   /\ ~C25_HasEntry(r)
        /\ (/\ allocateMemoryFill(r)
            /\ \A o \in Requests : o # r => allocKey[o] # allocKey[r])
                => allocKey[r] \notin DOMAIN memoryBlocks
        /\ (IsMemory(r) /\ memoryBlocks' # memoryBlocks
                /\ allocKey[r] \in DOMAIN memoryBlocks'
                /\ pc[r] = "memFilling")
                => /\ Len(building[r]) = Len(Blocks(params[r].size, r))
                   /\ memoryBlocks'[allocKey[r]] = building[r]

C25_OnlyTheCPURunnerRegistersFirst == [][C25_Step]_vars

C25_Witness ==
    \E r, o \in Requests :
        /\ IsMemory(r) /\ Len(building[r]) = 2
        /\ allocKey[r] \notin DOMAIN memoryBlocks
        /\ IsCPU(o) /\ Registered(o)
        /\ \E w \in WorkerIDs : workerPc[o][w] = "work"

\* ----------------------------------------------------- the memory blocks
\* sizes below, at, between and at a multiple of the 10 MB chunk
BlockSizes == {1, 10, 25, 30}

\* /memory requests allocated block by block, their deallocation and
\* readers of the memory statistics
NextBlocks ==
    \/ \E r \in Requests, s \in BlockSizes, d \in Durations :
            MemoryHandlerKey(r, s, d)
    \/ \E r \in Requests : allocateMemoryLock(r)
    \/ \E r \in Requests : allocateMemoryFill(r)
    \/ \E r \in Requests : allocateMemoryStore(r)
    \/ \E r \in Requests : MemoryHandlerRespond(r)
    \/ \E r \in Requests : MemoryTimeoutLock(r)
    \/ \E r \in Requests : MemoryTimeoutUnlock(r)
    \/ GetMemoryStats
    \/ CommonNext

SpecBlocks == Init /\ [][NextBlocks]_vars

\* C26: every key of memoryBlocks is the key of a /memory request, and for
\* each such request of size s MB the lengths of the key's blocks add up to
\* s * 1,048,576 bytes, every block but the last is 10 MB long, and the
\* last block is shorter than 10 MB exactly when s is not a multiple of 10
\* and then holds the remainder; GetMemoryStats reports s for the key and
\* the sum of the reported sizes as the total.
C26_MB == 1024 * 1024

C26_BlocksAddUpToTheRequestedSize ==
    /\ \A key \in DOMAIN memoryBlocks :
        /\ \E r \in Requests : IsMemory(r) /\ allocKey[r] = key
        /\ \A r \in Requests :
            (IsMemory(r) /\ allocKey[r] = key)
            => LET bs == memoryBlocks[key]
                   s == params[r].size
                   n == Len(bs)
               IN  /\ n > 0
                   /\ SumLen(bs) = s * C26_MB
                   /\ \A i \in 1..(n - 1) : bs[i].len = 10 * C26_MB
                   /\ bs[n].len <= 10 * C26_MB
                   /\ bs[n].len < 10 * C26_MB <=> s % 10 # 0
                   /\ s % 10 # 0 => bs[n].len = (s % 10) * C26_MB
    /\ memStats # NoMemStats =>
        /\ \A r \in Requests :
            (IsMemory(r)
                /\ allocKey[r] \in DOMAIN memStats.active_allocations)
            => memStats.active_allocations[allocKey[r]] = params[r].size
        /\ \E f \in [DOMAIN memStats.active_allocations -> Requests] :
            /\ \A k \in DOMAIN f : allocKey[f[k]] = k
            /\ memStats.total_allocated_mb =
                    LET keys == DOMAIN f
                        tot[S \in SUBSET keys] ==
                            IF S = {} THEN 0
                            ELSE LET k == CHOOSE x \in S : TRUE
                                 IN  params[f[k]].size + tot[S \ {k}]
                    IN  tot[keys]

C26_Witness ==
    \E r, o \in Requests :
        /\ params[r].size = 25 /\ params[o].size = 1
        /\ allocKey[r] \in DOMAIN memoryBlocks
        /\ Len(memoryBlocks[allocKey[r]]) = 3
        /\ allocKey[o] \in DOMAIN memoryBlocks
        /\ memStats.total_allocated_mb = 26

\* ------------------------------------------------- random level and size
\* the `level` and `size` parameters of the /log requests
LevelInputs == {"", "error", "INFO", "random", "RANDOM", "debug"}
RandomSizeInputs == {"random", "Long"}

\* one /log request, of any level with a custom message or of level info
\* with a generated message, logging once or repeatedly
NextLevels ==
    \/ \E r \in RangeRequests, lv \in LevelInputs, i \in IntervalInputs,
          d \in Durations :
            LogHandler(r, lv, "", CustomMessage, i, d)
    \/ \E r \in RangeRequests, s \in RandomSizeInputs, i \in IntervalInputs,
          d \in Durations :
            LogHandler(r, "info", s, "", i, d)
    \/ \E r \in Requests : LogHandlerRespond(r)
    \/ \E r \in Requests : LogGoStart(r)
    \/ \E r \in Requests : LogTick(r)
    \/ \E r \in Requests : LogExpire(r)
    \/ \E r \in Requests : LogNilTimerPanic(r)
    \/ CommonNext

SpecLevels == Init /\ [][NextLevels]_vars

\* C27: every entry of a /log request whose level is "random" (in any
\* letter case) has one of the levels info, warning, error, and whenever
\* the logging goroutine is about to write its next entry each of the three
\* is still possible for it, whatever the levels of the entries before; an
\* entry of a request with any other level has that level as the request
\* gave it; and with size "random" and no custom message every entry's
\* message is one of the short, medium and long messages, each again
\* possible for the next entry.
C27_Levels == {"info", "warning", "error"}

C27_Messages ==
    Elements(shortMessages) \cup Elements(mediumMessages)
        \cup Elements(longMessages)

C27_Last(entries) == entries[Len(entries)]

C27_RandomPerEntry ==
    \A r \in Requests :
        IsLog(r) =>
        LET randomLevel == params[r].level \in {"random", "RANDOM"}
            randomSize == params[r].logSize = "random"
        IN  /\ \A i \in DOMAIN logEntries[r] :
                /\ randomLevel => logEntries[r][i].level \in C27_Levels
                /\ ~randomLevel => logEntries[r][i].level = params[r].level
                /\ randomSize => logEntries[r][i].message \in C27_Messages
            /\ (randomLevel /\ ENABLED LogTick(r))
                => \A lv \in C27_Levels :
                    ENABLED (LogTick(r)
                             /\ C27_Last(logEntries'[r]).level = lv)
            /\ (randomSize /\ ENABLED LogTick(r))
                => \A m \in C27_Messages :
                    ENABLED (LogTick(r)
                             /\ C27_Last(logEntries'[r]).message = m)

C27_Witness ==
    \E r \in Requests :
        /\ params[r].level = "RANDOM"
        /\ Len(logEntries[r]) = 3
        /\ logEntries[r][1].level = "warning"
        /\ logEntries[r][2].level = "info"
        /\ logEntries[r][3].level = "error"

\* ------------------------------------------------------------ GetCPUStats
\* /cpu jobs, callers of stopCPULoad and cleanupAllJobs, and readers of the
\* CPU statistics
NextStats ==
    \/ \E r \in Requests : CPUHandlerKey(r, "extreme", 1)
    \/ \E r \in Requests : CPUHandlerRegister(r)
    \/ \E r \in Requests : CPUHandlerRespond(r)
    \/ \E r \in Requests, w \in WorkerIDs : WorkerSelect(r, w)
    \/ \E r \in Requests, w \in WorkerIDs : WorkerWork(r, w)
    \/ \E r \in Requests : CPUTimeout(r)
    \/ \E k \in StopKeys : ExplicitStop(k)
    \/ cleanupAllJobs
    \/ GetCPUStats
    \/ CommonNext

SpecStats == Init /\ [][NextStats]_vars

\* C28: a call of GetCPUStats returns as active_jobs exactly the keys that
\* are in cpuJobs at the moment of the call and as total_jobs their number,
\* and changes nothing but its own result: not the registry, the counter,
\* a job's context, a worker, a timer or a request; when every job that was
\* registered has been cancelled it returns no key and total_jobs 0.
C28_EveryJobCancelled ==
    \A r \in Requests :
        (IsCPU(r) /\ pc[r] \in {"cpuRegistered", "responded", "done"})
            => cancelCalls[r] > 0

C28_Step ==
    GetCPUStats
    => /\ cpuStats'.active_jobs = DOMAIN cpuJobs
       /\ cpuStats'.total_jobs = Cardinality(cpuStats'.active_jobs)
       /\ UNCHANGED <<now, alive, reqVars, cpuVars, memVars, logVars,
                      killVars, delayVars>>
       /\ C28_EveryJobCancelled
            => (cpuStats'.active_jobs = {} /\ cpuStats'.total_jobs = 0)

C28_StatsAreAReadOnlySnapshot == [][C28_Step]_vars

C28_Witness ==
    /\ cpuStats.total_jobs = 2
    /\ cpuJobs = <<>>
    /\ \A r \in Requests : cancelCalls[r] = 1

\* C29: the step in which the deallocation goroutine of a /memory request
\* runs removes from memoryBlocks only blocks that this request allocated:
\* no timer removes the allocation of another request, be it earlier than
\* that request's own duration or at all.
C29_Step ==
    \A r \in Requests :
        MemoryTimeout(r)
        => \A key \in DOMAIN memoryBlocks \ DOMAIN memoryBlocks' :
            \A i \in DOMAIN memoryBlocks[key] : memoryBlocks[key][i].by = r

C29_TimerRemovesOnlyItsOwnBlocks == [][C29_Step]_vars

\* C30: the process stops running only because the termination goroutine
\* of a /kill request has called os.Exit outside test mode: no step of a
\* /cpu, /memory or /log request or of any goroutine they start ends it,
\* and in test mode nothing does.
C30_OnlyKillTerminates ==
    ~alive => (~TestMode /\ \E r \in Requests : killPc[r] = "exited")

====
